---------------------------- MODULE Spec2Model ----------------------------
(***************************************************************************)
(* A model of the allocation and rebalancing engine of Portfolio-Copilot   *)
(* (backend/portfolio.py) together with the catalog read interface it      *)
(* consumes (backend/sector_data.py) and the value objects of              *)
(* backend/models.py.                                                      *)
(*                                                                         *)
(* Numbers.  The source computes with Python floats.  Here a weight is an  *)
(* integer count of units, ONE units being the fraction 1.0 (and 100 %),   *)
(* and every float division is a floor division.  A float result and its   *)
(* model value differ by at most a few units (1 unit = 1/30000); every     *)
(* tolerance of the source (0.001, 0.01) is at least 30 units.             *)
(*                                                                         *)
(* Strings.  A ticker or an exclusion is a sequence of one-character       *)
(* strings, so that str.lower(), str.upper() and the substring test `in`   *)
(* are computed and not assumed.  Sector names are compared by equality    *)
(* only and stay TLA+ strings.                                             *)
(***************************************************************************)
EXTENDS Integers, Sequences, FiniteSets, TLC

VARIABLES
    catalog,    \* sectors.json as load_sectors_data() returns it: Seq of sectors
    profile,    \* the InvestorProfile of the call, or NoProfile
    portfolio,  \* the PortfolioInput of the call: [holdings, cash_weight]
    target,     \* the TargetAllocation computed for profile, or NoTarget
    plan,       \* the RebalancePlan returned, or NoPlan
    built,      \* the PortfolioInput construct_portfolio_from_scratch returned
    metrics,    \* the outcome of compute_metrics, or NoMetrics
    lookups,    \* the lookup_or_add_ticker coroutines in flight, or NoLookups
    pc          \* position of the request handler

vars == <<catalog, profile, portfolio, target, plan, built, metrics, lookups, pc>>

-----------------------------------------------------------------------------
(* Fixed-point numbers *)

\* 1.0 (= 100 %) in units; 300 units per percent keeps 0.4*risk_score and
\* horizon_months/6 exact.
ONE == 300 * 100

\* p percent as a fraction, in units
Pct(p) == p * (ONE \div 100)

\* n thousandths (0.001 * n), in units
Milli(n) == n * (ONE \div 1000)

Min(a, b) == IF a <= b THEN a ELSE b

Max(a, b) == IF a >= b THEN a ELSE b

Abs(a) == IF a >= 0 THEN a ELSE 0 - a

\* x * (num / den) for x, num >= 0 and den > 0, as the float product rounded
\* down: floor(x * num / den), computed without the large product x * num
Scale(x, num, den) == (x \div den) * num + ((x % den) * num) \div den

RECURSIVE SumSeq(_)
SumSeq(s) == IF s = <<>> THEN 0 ELSE Head(s) + SumSeq(Tail(s))

\* [x for x in s if T(x)]
RECURSIVE FilterSeq(_, _)
FilterSeq(T(_), s) ==
    IF s = <<>> THEN <<>>
    ELSE (IF T(Head(s)) THEN <<Head(s)>> ELSE <<>>) \o FilterSeq(T, Tail(s))

Range(s) == {s[i] : i \in DOMAIN s}

-----------------------------------------------------------------------------
(* Strings: str.lower(), str.upper() and the substring test *)

LowerChar(c) ==
    CASE c = "A" -> "a" [] c = "B" -> "b" [] c = "H" -> "h" [] c = "T" -> "t"
      [] c = "E" -> "e" [] c = "F" -> "f" [] c = "U" -> "u" [] c = "R" -> "r"
      [] c = "Z" -> "z" [] OTHER -> c

UpperChar(c) ==
    CASE c = "a" -> "A" [] c = "b" -> "B" [] c = "h" -> "H" [] c = "t" -> "T"
      [] c = "e" -> "E" [] c = "f" -> "F" [] c = "u" -> "U" [] c = "r" -> "R"
      [] c = "z" -> "Z" [] OTHER -> c

\* s.lower()
Lower(s) == [i \in DOMAIN s |-> LowerChar(s[i])]

\* s.upper()
Upper(s) == [i \in DOMAIN s |-> UpperChar(s[i])]

\* sub in s  (the empty string is in every string)
Contains(sub, s) ==
    \E i \in 0..(Len(s) - Len(sub)) :
        \A j \in 1..Len(sub) : s[i + j] = sub[j]

\* any(exclusion.lower() in ticker.lower() for exclusion in exclusions)
IsExcluded(ticker, exclusions) ==
    \E k \in DOMAIN exclusions : Contains(Lower(exclusions[k]), Lower(ticker))

-----------------------------------------------------------------------------
(* Bounds of the fields of InvestorProfile (backend/models.py) *)

MinRiskScore == 0
MaxRiskScore == 100
MinHorizonMonths == 0
MaxHorizonMonths == 600
MinMaxHoldings == 1
MaxMaxHoldings == 100
MinMaxPositionPct == 1
MaxMaxPositionPct == 100

ObjectiveTypes == {"growth", "income", "balanced"}

NoProfile == [none |-> TRUE]
NoTarget == [none |-> TRUE]
NoPlan == [none |-> TRUE]
NoMetrics == [none |-> TRUE]
NoPortfolio == [holdings |-> <<>>, cash_weight |-> 0]
NoLookups == <<>>

-----------------------------------------------------------------------------
(* compute_target_allocation *)

\* the minimum cash sleeve, 5 %
MIN_CASH_PCT == Pct(5)

is_risk_averse(p) == p.risk_score < 50

is_very_risk_averse(p) == p.risk_score < 35

\* base_equity before the objective adjustment
BaseEquity(p) ==
    Min(Pct(80),
        Pct(40) + (p.risk_score * Pct(40)) \div 100
                + (Min(p.horizon_months, 120) * Pct(20)) \div 120)

ThematicWeight(p) ==
    IF is_very_risk_averse(p) THEN (IF p.sectors_like # <<>> THEN Pct(5) ELSE 0)
    ELSE IF is_risk_averse(p) THEN (IF p.sectors_like # <<>> THEN Pct(8) ELSE Pct(3))
    ELSE (IF p.sectors_like # <<>> THEN Pct(15) ELSE Pct(5))

CashWeight(p) ==
    IF is_very_risk_averse(p) THEN
        (IF p.horizon_months < 12 THEN Max(Pct(25), MIN_CASH_PCT)
         ELSE IF p.horizon_months < 24 THEN Max(Pct(15), MIN_CASH_PCT)
         ELSE Max(Pct(10), MIN_CASH_PCT))
    ELSE IF is_risk_averse(p) THEN
        (IF p.horizon_months < 12 THEN Max(Pct(20), MIN_CASH_PCT)
         ELSE IF p.horizon_months < 24 THEN Max(Pct(12), MIN_CASH_PCT)
         ELSE Max(Pct(7), MIN_CASH_PCT))
    ELSE
        (IF p.horizon_months < 12 THEN Max(Pct(20), MIN_CASH_PCT)
         ELSE IF p.horizon_months < 24 THEN Max(Pct(10), MIN_CASH_PCT)
         ELSE MIN_CASH_PCT)

\* the defensive sleeve without the very-risk-averse tier
DefensiveWeight_NoTopTier(p) ==
    IF is_risk_averse(p) THEN Pct(15)
    ELSE IF p.risk_score < 40 THEN Pct(10)
    ELSE 0

DefensiveWeight(p) ==
    IF is_very_risk_averse(p) THEN Pct(20)
    ELSE IF is_risk_averse(p) THEN Pct(15)
    ELSE IF p.risk_score < 40 THEN Pct(10)
    ELSE 0

\* the four sleeves after the objective adjustment, before normalization
PreNormSleeves(p) ==
    LET b == BaseEquity(p)
        d == DefensiveWeight(p)
    IN  [cash      |-> CashWeight(p),
         thematic  |-> ThematicWeight(p),
         base      |-> IF p.objective = "income" THEN (b * 7) \div 10
                       ELSE IF p.objective = "balanced" THEN (b * 85) \div 100
                       ELSE b,
         defensive |-> IF p.objective = "income"
                       THEN d + Pct(10) + (IF is_risk_averse(p) THEN Pct(5) ELSE 0)
                       ELSE d]

\* which branch of the normalization a profile takes
NormBranch(p) ==
    LET s == PreNormSleeves(p)
        total == s.base + s.thematic + s.cash + s.defensive
        equity_to_scale == s.base + s.thematic + s.defensive
    IN  IF total > Pct(100)
        THEN (IF equity_to_scale > Pct(100) - MIN_CASH_PCT THEN "cash_reset" ELSE "proportional")
        ELSE "remainder"

\* Normalize without its last branch: sleeves that sum to less than 100 % are
\* returned as they are, the remainder is not given to core equity
Normalize_NoRemainder(s) ==
    LET total == s.base + s.thematic + s.cash + s.defensive
        equity_to_scale == s.base + s.thematic + s.defensive
        max_equity == Pct(100) - MIN_CASH_PCT
    IN  IF total > Pct(100) THEN
            IF equity_to_scale > max_equity THEN
                [cash      |-> MIN_CASH_PCT,
                 base      |-> Scale(s.base, max_equity, equity_to_scale),
                 thematic  |-> Scale(s.thematic, max_equity, equity_to_scale),
                 defensive |-> Scale(s.defensive, max_equity, equity_to_scale)]
            ELSE
                [cash      |-> Max(Scale(s.cash, Pct(100), total), MIN_CASH_PCT),
                 base      |-> Scale(s.base, Pct(100), total),
                 thematic  |-> Scale(s.thematic, Pct(100), total),
                 defensive |-> Scale(s.defensive, Pct(100), total)]
        ELSE s

\* "Normalize to 100%, but ensure cash is at least MIN_CASH_PCT"
Normalize(s) ==
    LET total == s.base + s.thematic + s.cash + s.defensive
        equity_to_scale == s.base + s.thematic + s.defensive
        max_equity == Pct(100) - MIN_CASH_PCT
    IN  IF total > Pct(100) THEN
            IF equity_to_scale > max_equity THEN
                [cash      |-> MIN_CASH_PCT,
                 base      |-> Scale(s.base, max_equity, equity_to_scale),
                 thematic  |-> Scale(s.thematic, max_equity, equity_to_scale),
                 defensive |-> Scale(s.defensive, max_equity, equity_to_scale)]
            ELSE
                [cash      |-> Max(Scale(s.cash, Pct(100), total), MIN_CASH_PCT),
                 base      |-> Scale(s.base, Pct(100), total),
                 thematic  |-> Scale(s.thematic, Pct(100), total),
                 defensive |-> Scale(s.defensive, Pct(100), total)]
        ELSE
            LET remainder == Pct(100) - total
                remainder2 == IF s.cash < MIN_CASH_PCT
                              THEN remainder - (MIN_CASH_PCT - s.cash)
                              ELSE remainder
            IN  [cash      |-> IF s.cash < MIN_CASH_PCT THEN MIN_CASH_PCT ELSE s.cash,
                 base      |-> s.base + remainder2,
                 thematic  |-> s.thematic,
                 defensive |-> s.defensive]

\* "Final check: ensure cash is at least MIN_CASH_PCT"
FinalCashCheck(s) ==
    IF s.cash < MIN_CASH_PCT THEN
        LET excess == MIN_CASH_PCT - s.cash
            equity_total == s.base + s.thematic + s.defensive
        IN  IF equity_total > excess THEN
                [cash      |-> MIN_CASH_PCT,
                 base      |-> Scale(s.base, equity_total - excess, equity_total),
                 thematic  |-> Scale(s.thematic, equity_total - excess, equity_total),
                 defensive |-> Scale(s.defensive, equity_total - excess, equity_total)]
            ELSE [s EXCEPT !.cash = MIN_CASH_PCT]
    ELSE s

\* compute_target_allocation without a cash floor: the equity sleeves keep
\* their share of 100 % and cash is what they leave
compute_target_allocation_CashLeftover(p) ==
    LET s == PreNormSleeves(p)
        equity == s.base + s.thematic + s.defensive
        over == equity > Pct(100)
    IN  [cash             |-> IF over THEN 0 ELSE Pct(100) - equity,
         core_equity      |-> IF over THEN Scale(s.base, Pct(100), equity) ELSE s.base,
         thematic_sectors |-> IF over THEN Scale(s.thematic, Pct(100), equity) ELSE s.thematic,
         defensive        |-> IF over THEN Scale(s.defensive, Pct(100), equity) ELSE s.defensive]

compute_target_allocation(p) ==
    LET s == FinalCashCheck(Normalize(PreNormSleeves(p)))
    IN  [cash             |-> s.cash,
         core_equity      |-> s.base,
         thematic_sectors |-> s.thematic,
         defensive        |-> s.defensive]


-----------------------------------------------------------------------------
(* The catalog (data/sectors.json) and its read interface, sector_data.py *)

Stock(t, cap, risk) == [ticker |-> t, market_cap |-> cap, industry_risk |-> risk]

SmallCatalog ==
    << [name |-> "Tech",   stocks |-> << Stock(<<"T","A">>, "large", "high"),
                                         Stock(<<"T","B">>, "small", "very_high") >>],
       [name |-> "Health", stocks |-> << Stock(<<"H","A">>, "large", "low") >>],
       [name |-> "Energy", stocks |-> << Stock(<<"E","A">>, "medium", "medium") >>] >>

WideCatalog ==
    << [name |-> "Tech",    stocks |-> << Stock(<<"T","A">>, "large", "high"),
                                          Stock(<<"T","B">>, "small", "very_high") >>],
       [name |-> "Health",  stocks |-> << Stock(<<"H","A">>, "large", "low"),
                                          Stock(<<"H","B">>, "medium", "medium") >>],
       [name |-> "Energy",  stocks |-> << Stock(<<"E","A">>, "medium", "medium") >>],
       [name |-> "Finance", stocks |-> << Stock(<<"F","A">>, "large", "medium") >>],
       [name |-> "Util",    stocks |-> << Stock(<<"U","A">>, "etf", "low") >>],
       [name |-> "Retail",  stocks |-> << Stock(<<"R","A">>, "small", "high") >>] >>

Catalogs == {SmallCatalog, WideCatalog}

\* [s['name'] for s in sectors_data['sectors']]
AllSectorNames(cat) == [i \in DOMAIN cat |-> cat[i].name]

\* the stocks of one sector, each with its sector name added
RECURSIVE TagStocks(_, _, _)
TagStocks(stocks, name, seen) ==
    IF stocks = <<>> THEN <<>>
    ELSE IF Head(stocks).ticker \in seen THEN TagStocks(Tail(stocks), name, seen)
    ELSE << [ticker |-> Head(stocks).ticker, market_cap |-> Head(stocks).market_cap,
             industry_risk |-> Head(stocks).industry_risk, sector |-> name] >>
         \o TagStocks(Tail(stocks), name, seen \cup {Head(stocks).ticker})

RECURSIVE StocksFrom(_, _, _)
StocksFrom(cat, sector_names, seen) ==
    IF cat = <<>> THEN <<>>
    ELSE IF Head(cat).name \in Range(sector_names)
         THEN LET here == TagStocks(Head(cat).stocks, Head(cat).name, seen)
              IN  here \o StocksFrom(Tail(cat), sector_names,
                                     seen \cup {here[i].ticker : i \in DOMAIN here})
         ELSE StocksFrom(Tail(cat), sector_names, seen)

\* get_stocks_for_sectors(sector_names): catalog order, first occurrence of a ticker
get_stocks_for_sectors(cat, sector_names) == StocksFrom(cat, sector_names, {})

\* get_ticker_sector(ticker) or 'Unknown'
get_ticker_sector(cat, ticker) ==
    LET hits == {i \in DOMAIN cat :
                    \E k \in DOMAIN cat[i].stocks : Upper(cat[i].stocks[k].ticker) = Upper(ticker)}
    IN  IF hits = {} THEN "Unknown"
        ELSE cat[CHOOSE i \in hits : \A j \in hits : i <= j].name

\* validate_ticker_in_sectors(ticker, allowed_sectors)
validate_ticker_in_sectors(cat, ticker, allowed_sectors) ==
    IF allowed_sectors = <<>> THEN TRUE
    ELSE \E i \in DOMAIN cat :
            /\ cat[i].name \in Range(allowed_sectors)
            /\ \E k \in DOMAIN cat[i].stocks : Upper(cat[i].stocks[k].ticker) = Upper(ticker)

-----------------------------------------------------------------------------
(* compute_metrics *)

HoldingWeights(holdings) == [i \in DOMAIN holdings |-> holdings[i].weight]

\* insert w into the descending sequence s, after the elements equal to it
RECURSIVE InsertDesc(_, _)
InsertDesc(w, s) ==
    IF s = <<>> THEN <<w>>
    ELSE IF Head(s) >= w THEN <<Head(s)>> \o InsertDesc(w, Tail(s))
    ELSE <<w>> \o s

\* the weights of sorted(holdings, key=weight, reverse=True)
RECURSIVE SortedWeights(_)
SortedWeights(ws) ==
    IF ws = <<>> THEN <<>> ELSE InsertDesc(Head(ws), SortedWeights(Tail(ws)))

\* sum(h.weight for h in sorted_holdings[:k])
TopWeight(holdings, k) ==
    LET sw == SortedWeights(HoldingWeights(holdings))
    IN  SumSeq(SubSeq(sw, 1, Min(k, Len(sw))))

\* total_weight = cash_weight + sum(h.weight for h in holdings)
TotalWeight(pf) == pf.cash_weight + SumSeq(HoldingWeights(pf.holdings))

\* the validation without the cash weight: only the holdings are summed
WeightsInvalid_HoldingsOnly(pf) ==
    Abs(SumSeq(HoldingWeights(pf.holdings)) - ONE) > Pct(1)

\* abs(total_weight - 1.0) > 0.01: the ValueError of compute_metrics
WeightsInvalid(pf) == Abs(TotalWeight(pf) - ONE) > Pct(1)

\* get_sector_breakdown: sector name -> summed weight, over the sectors held
get_sector_breakdown(cat, pf) ==
    LET held == {get_ticker_sector(cat, pf.holdings[i].ticker) : i \in DOMAIN pf.holdings}
    IN  [sec \in held |->
            SumSeq([i \in DOMAIN pf.holdings |->
                      IF get_ticker_sector(cat, pf.holdings[i].ticker) = sec
                      THEN pf.holdings[i].weight ELSE 0])]

\* the count without the slot of the cash
TotalCount_HoldingsOnly(pf) == Len(pf.holdings)

\* len(holdings) + (1 if cash_weight > 0 else 0)
TotalCount(pf) == Len(pf.holdings) + (IF pf.cash_weight > 0 THEN 1 ELSE 0)

\* the exclusion entries of one holding, one per matching exclusion
RECURSIVE ExclusionHits(_, _)
ExclusionHits(ticker, exclusions) ==
    IF exclusions = <<>> THEN <<>>
    ELSE (IF Contains(Lower(Head(exclusions)), Lower(ticker))
          THEN << [kind |-> "exclusion", ticker |-> ticker, exclusion |-> Head(exclusions)] >>
          ELSE <<>>)
         \o ExclusionHits(ticker, Tail(exclusions))

RECURSIVE ExclusionViolations(_, _)
ExclusionViolations(holdings, exclusions) ==
    IF holdings = <<>> THEN <<>>
    ELSE ExclusionHits(Head(holdings).ticker, exclusions)
         \o ExclusionViolations(Tail(holdings), exclusions)

RECURSIVE PositionViolations(_, _)
PositionViolations(holdings, max_position_pct) ==
    IF holdings = <<>> THEN <<>>
    ELSE (IF Head(holdings).weight > Pct(max_position_pct)
          THEN << [kind |-> "position", ticker |-> Head(holdings).ticker,
                   weight |-> Head(holdings).weight] >>
          ELSE <<>>)
         \o PositionViolations(Tail(holdings), max_position_pct)

\* constraint_violations: the entries the f-strings of the source are built from
ConstraintViolations(pf, p) ==
    IF p = NoProfile THEN <<>>
    ELSE (IF TotalCount(pf) > p.max_holdings
          THEN << [kind |-> "holdings", count |-> TotalCount(pf), max |-> p.max_holdings] >>
          ELSE <<>>)
         \o PositionViolations(pf.holdings, p.max_position_pct)
         \o ExclusionViolations(pf.holdings, p.exclusions)

\* hhi = sum(h.weight ** 2) (+ cash_weight ** 2 if cash_weight > 0)
Herfindahl(pf) ==
    SumSeq([i \in DOMAIN pf.holdings |-> (pf.holdings[i].weight * pf.holdings[i].weight) \div ONE])
    + (IF pf.cash_weight > 0 THEN (pf.cash_weight * pf.cash_weight) \div ONE ELSE 0)

compute_metrics(cat, pf, p) ==
    IF WeightsInvalid(pf) THEN [error |-> "ValueError"]
    ELSE [error |-> "none",
          total_holdings |-> TotalCount(pf),
          top_1_weight |-> TopWeight(pf.holdings, 1),
          top_3_weight |-> TopWeight(pf.holdings, 3),
          top_5_weight |-> TopWeight(pf.holdings, 5),
          herfindahl_index |-> Herfindahl(pf),
          constraint_violations |-> ConstraintViolations(pf, p),
          sector_allocation |-> get_sector_breakdown(cat, pf),
          ticker_sectors |-> [t \in {Upper(pf.holdings[i].ticker) : i \in DOMAIN pf.holdings}
                                |-> get_ticker_sector(cat, t)]]

-----------------------------------------------------------------------------
(* Profiles *)

Profile(r, h, o, mh, mp, ex, like, avoid) ==
    [risk_score |-> r, horizon_months |-> h, objective |-> o,
     max_holdings |-> mh, max_position_pct |-> mp,
     exclusions |-> ex, sectors_like |-> like, sectors_avoid |-> avoid]

\* compute_target_allocation reads horizon_months through the tests < 12 and
\* < 24 and through min(horizon_years, 10): every horizon above 120 months
\* gives the result of 120 months, so a few of them stand for the rest.
HorizonValues ==
    { h \in MinHorizonMonths..MaxHorizonMonths : h <= 125 \/ h \in {240, MaxHorizonMonths} }

\* every (risk_score, objective, sectors_like empty or not) with those horizons:
\* the only fields compute_target_allocation reads
AllocProfiles ==
    { Profile(r, h, o, 20, 25, <<>>, like, <<>>) :
        r \in MinRiskScore..MaxRiskScore, h \in HorizonValues,
        o \in ObjectiveTypes, like \in {<<>>, <<"Tech">>} }

-----------------------------------------------------------------------------
(* compute_rebalance_plan: limits and the diversification check *)

\* max_position = max_position_pct / 100.0
MaxPosition(p) == Pct(p.max_position_pct)

MaxSectorWeight(p) ==
    IF is_very_risk_averse(p) THEN Pct(20)
    ELSE IF is_risk_averse(p) THEN Pct(25)
    ELSE Pct(35)

\* no minimum number of sectors: the selection is not made to cover any
MinSectors_None(p) == 0

MinSectors(p) ==
    IF is_very_risk_averse(p) THEN 5
    ELSE IF is_risk_averse(p) THEN 4
    ELSE 3

\* min_preferred_pct, in percent
MinPreferredPct(p) ==
    IF is_very_risk_averse(p) THEN 30
    ELSE IF is_risk_averse(p) THEN 40
    ELSE IF p.risk_score < 70 THEN 50
    ELSE 60

\* current_tickers
CurrentTickers(pf) == {Upper(pf.holdings[i].ticker) : i \in DOMAIN pf.holdings}

\* current_sector_weights.get(sector, 0.0)
CurrentSectorWeight(cat, pf, sector) ==
    SumSeq([i \in DOMAIN pf.holdings |->
              IF get_ticker_sector(cat, pf.holdings[i].ticker) = sector
              THEN pf.holdings[i].weight ELSE 0])

\* the sectors a weight map may be asked about
SectorKeys(cat) == Range(AllSectorNames(cat)) \cup {"Unknown"}

\* current_sector_weights, as a total map (0.0 where the dict has no key)
CurrentSectorWeights(cat, pf) ==
    [sec \in SectorKeys(cat) |-> CurrentSectorWeight(cat, pf, sec)]

is_long_term(p) == p.horizon_months > 24

is_too_concentrated(pf, p) ==
    /\ is_long_term(p)
    /\ Len(pf.holdings) < Min(8, p.max_holdings)
    /\ Len(pf.holdings) < p.max_holdings

is_highly_concentrated(pf) ==
    /\ pf.holdings # <<>>
    /\ TopWeight(pf.holdings, 2) > Pct(60)

\* has_sector_concentration: some sector of the current portfolio is over the cap
has_sector_concentration(cat, pf, p) ==
    \E sec \in SectorKeys(cat) : CurrentSectorWeight(cat, pf, sec) > MaxSectorWeight(p)

\* new_holdings_needed (0 when the diversification check does not trigger)
NewHoldingsNeeded(pf, p) ==
    IF is_too_concentrated(pf, p) \/ is_highly_concentrated(pf)
    THEN LET num_holdings == Len(pf.holdings)
             target_holdings_count ==
                 IF is_long_term(p) THEN Min(p.max_holdings, Max(8, num_holdings * 2))
                 ELSE p.max_holdings
         IN  Max(0, target_holdings_count - num_holdings)
    ELSE 0

\* [s for s in names if s not in banned]
Without(names, banned) == FilterSeq(LAMBDA x : x \notin Range(banned), names)

\* [s for s in names if s in wanted]
Within(names, wanted) == FilterSeq(LAMBDA x : x \in Range(wanted), names)

\* preferred_sectors_list and other_sectors_list, after "Avoid excluded sectors"
CandidateSectors(cat, pf, p) ==
    LET all_sectors == AllSectorNames(cat)
        current_sectors ==
            {get_ticker_sector(cat, pf.holdings[i].ticker) : i \in DOMAIN pf.holdings}
                \ {"Unknown"}
        not_current(names) == FilterSeq(LAMBDA x : x \notin current_sectors, names)
        underrepresented == not_current(all_sectors)
        pref0 == Within(underrepresented, p.sectors_like)
        other0 == Without(Without(underrepresented, p.sectors_like), p.sectors_avoid)
        expand == Len(pref0) + Len(other0) < MinSectors(p)
        all_preferred == Without(not_current(Within(all_sectors, p.sectors_like)), p.sectors_avoid)
        all_other == Without(not_current(Without(all_sectors, p.sectors_like)), p.sectors_avoid)
        pref1 == IF p.sectors_like = <<>> THEN <<>>
                 ELSE IF expand /\ pref0 # <<>> THEN all_preferred ELSE pref0
        other1 == IF p.sectors_like = <<>>
                  THEN (IF underrepresented # <<>> THEN underrepresented
                        ELSE Without(all_sectors, p.sectors_avoid))
                  ELSE IF expand /\ other0 = <<>> THEN all_other ELSE other0
    IN  [preferred |-> Without(pref1, p.sectors_avoid),
         other     |-> Without(other1, p.sectors_avoid)]

\* the first stock of stocks that is neither held or picked (seen) nor excluded
RECURSIVE FirstUsable(_, _, _)
FirstUsable(stocks, seen, exclusions) ==
    IF stocks = <<>> THEN <<>>
    ELSE IF Upper(Head(stocks).ticker) \in seen \/ IsExcluded(Head(stocks).ticker, exclusions)
         THEN FirstUsable(Tail(stocks), seen, exclusions)
         ELSE <<Head(stocks)>>

\* "First pass: Add one stock from each underrepresented sector"
RECURSIVE FirstPass(_, _, _, _, _, _, _)
FirstPass(sectors, preferred_stocks, other_stocks, new, seen, needed, exclusions) ==
    IF sectors = <<>> \/ Len(new) >= needed THEN [new |-> new, seen |-> seen]
    ELSE LET sector == Head(sectors)
             in_pref == FilterSeq(LAMBDA st : st.sector = sector, preferred_stocks)
             stocks_for_sector ==
                 IF in_pref # <<>> THEN in_pref
                 ELSE FilterSeq(LAMBDA st : st.sector = sector, other_stocks)
             pick == FirstUsable(stocks_for_sector, seen, exclusions)
         IN  IF pick = <<>>
             THEN FirstPass(Tail(sectors), preferred_stocks, other_stocks, new, seen,
                            needed, exclusions)
             ELSE FirstPass(Tail(sectors), preferred_stocks, other_stocks, new \o pick,
                            seen \cup {Upper(pick[1].ticker)}, needed, exclusions)

\* "Second pass: Fill remaining slots with balanced selection": the while loop.
\* The fallback branch pops from a fresh list, so it leaves both remaining
\* lists as they were; when the stock it finds is already seen, an iteration
\* changes nothing and the loop never ends (diverged).
RECURSIVE SecondPass(_, _, _, _, _, _, _, _, _)
SecondPass(new, seen, preferred_count, other_count, pref_rem, other_rem, needed, preferred_target_count, exclusions) ==
    IF ~(Len(new) < needed /\ (pref_rem # <<>> \/ other_rem # <<>>))
    THEN [new |-> new, diverged |-> FALSE]
    ELSE LET should_add_preferred ==
                 preferred_count < preferred_target_count /\ pref_rem # <<>>
             should_add_other == other_count >= preferred_count \/ pref_rem = <<>>
         IN  IF should_add_preferred THEN
                 LET stock == Head(pref_rem)
                     take == Upper(stock.ticker) \notin seen
                             /\ ~IsExcluded(stock.ticker, exclusions)
                 IN  SecondPass(IF take THEN Append(new, stock) ELSE new,
                                IF take THEN seen \cup {Upper(stock.ticker)} ELSE seen,
                                IF take THEN preferred_count + 1 ELSE preferred_count,
                                other_count, Tail(pref_rem), other_rem,
                                needed, preferred_target_count, exclusions)
             ELSE IF should_add_other /\ other_rem # <<>> THEN
                 LET stock == Head(other_rem)
                     take == Upper(stock.ticker) \notin seen
                             /\ ~IsExcluded(stock.ticker, exclusions)
                 IN  SecondPass(IF take THEN Append(new, stock) ELSE new,
                                IF take THEN seen \cup {Upper(stock.ticker)} ELSE seen,
                                preferred_count,
                                IF take THEN other_count + 1 ELSE other_count,
                                pref_rem, Tail(other_rem),
                                needed, preferred_target_count, exclusions)
             ELSE
                 LET remaining == pref_rem \o other_rem
                     stock == Head(remaining)
                 IN  IF remaining = <<>> THEN [new |-> new, diverged |-> FALSE]
                     ELSE IF Upper(stock.ticker) \in seen
                     THEN [new |-> new, diverged |-> TRUE]
                     ELSE SecondPass(Append(new, stock), seen \cup {Upper(stock.ticker)},
                                     preferred_count, other_count, pref_rem, other_rem,
                                     needed, preferred_target_count, exclusions)

\* the two passes over the stocks of the candidate sectors cs
SelectFromSectors(cat, pf, p, needed, cs) ==
    LET preferred_stocks == IF cs.preferred # <<>>
                            THEN get_stocks_for_sectors(cat, cs.preferred) ELSE <<>>
        other_stocks == IF cs.other # <<>>
                        THEN get_stocks_for_sectors(cat, cs.other) ELSE <<>>
        first == FirstPass(cs.preferred \o cs.other, preferred_stocks, other_stocks,
                           <<>>, CurrentTickers(pf), needed, p.exclusions)
        preferred_count ==
            Cardinality({i \in DOMAIN first.new :
                validate_ticker_in_sectors(cat, first.new[i].ticker, p.sectors_like)})
        \* int(new_holdings_needed * 0.6), or 0 without preferred sectors
        preferred_target_count ==
            IF p.sectors_like # <<>> THEN (needed * 6) \div 10 ELSE 0
        unseen(stocks) ==
            FilterSeq(LAMBDA st : Upper(st.ticker) \notin first.seen, stocks)
    IN  SecondPass(first.new, first.seen, preferred_count, Len(first.new) - preferred_count,
                   unseen(preferred_stocks), unseen(other_stocks),
                   needed, preferred_target_count, p.exclusions)

\* new_holdings_to_add, and whether the fill loop ends
SelectNewHoldings(cat, pf, p) ==
    IF NewHoldingsNeeded(pf, p) = 0 THEN [new |-> <<>>, diverged |-> FALSE]
    ELSE SelectFromSectors(cat, pf, p, NewHoldingsNeeded(pf, p),
                           CandidateSectors(cat, pf, p))

-----------------------------------------------------------------------------
(* compute_rebalance_plan: weight assignment *)

\* is_preferred: sectors_like is set and the ticker is in one of those sectors
IsPreferred(cat, p, ticker) ==
    p.sectors_like # <<>> /\ validate_ticker_in_sectors(cat, ticker, p.sectors_like)

\* target_per_preferred_holding, target_per_other_holding and the value
\* total_target_equity has after this block: core + thematic when there is a
\* holding to weigh (the assignment at its top), else the earlier
\* core + thematic + defensive
HoldingTargets(cat, pf, p, t, new) ==
    LET total_preferred_holdings ==
            Cardinality({i \in DOMAIN pf.holdings : IsPreferred(cat, p, pf.holdings[i].ticker)})
            + Cardinality({i \in DOMAIN new : IsPreferred(cat, p, Upper(new[i].ticker))})
        total_holdings_count == Len(pf.holdings) + Len(new)
        total_other_holdings == total_holdings_count - total_preferred_holdings
        max_position == MaxPosition(p)
    IN  IF total_holdings_count > 0 THEN
            LET total_target_equity == t.core_equity + t.thematic_sectors
                min_preferred_allocation ==
                    Scale(total_target_equity, MinPreferredPct(p), 100)
                thematic_per_preferred ==
                    IF total_preferred_holdings > 0 /\ t.thematic_sectors > 0
                    THEN t.thematic_sectors \div total_preferred_holdings ELSE 0
                additional_core_needed ==
                    IF t.thematic_sectors < min_preferred_allocation
                    THEN Min(min_preferred_allocation - t.thematic_sectors, t.core_equity)
                    ELSE 0
                remaining_core_equity == t.core_equity - additional_core_needed
                core_share == remaining_core_equity \div total_holdings_count
            IN  [preferred |->
                    IF total_preferred_holdings > 0
                    THEN Min(thematic_per_preferred + core_share
                               + additional_core_needed \div total_preferred_holdings,
                             max_position)
                    ELSE 0,
                 other |-> IF total_other_holdings > 0 THEN Min(core_share, max_position) ELSE 0,
                 total_target_equity |-> total_target_equity,
                 total_holdings_count |-> total_holdings_count]
        ELSE [preferred |-> 0, other |-> 0,
              total_target_equity |-> t.core_equity + t.thematic_sectors + t.defensive,
              total_holdings_count |-> 0]

Action(kind, ticker, delta) == [action |-> kind, ticker |-> ticker, delta_weight |-> delta]

\* "Compute deltas for existing holdings, enforcing sector limits": the loop
\* over current_portfolio.holdings; projected is projected_sector_weights
RECURSIVE ExistingDeltas(_, _, _, _, _, _)
ExistingDeltas(cat, p, holdings, targets, projected, actions) ==
    IF holdings = <<>> THEN [actions |-> actions, projected |-> projected]
    ELSE
    LET holding == Head(holdings)
        sector == get_ticker_sector(cat, holding.ticker)
        current_weight == holding.weight
        base_target_weight ==
            IF IsPreferred(cat, p, holding.ticker) THEN targets.preferred ELSE targets.other
        current_sector_total == projected[sector]
        capped ==
            IF current_sector_total - current_weight + base_target_weight > MaxSectorWeight(p)
            THEN Min(base_target_weight,
                     MaxSectorWeight(p) - (current_sector_total - current_weight))
            ELSE base_target_weight
        target_weight == IF capped > MaxPosition(p) THEN MaxPosition(p) ELSE capped
        delta == target_weight - current_weight
    IN  IF Abs(delta) > Milli(1) THEN
            IF delta > 0
            THEN ExistingDeltas(cat, p, Tail(holdings), targets,
                     [projected EXCEPT ![sector] = @ + delta],
                     Append(actions, Action("BUY", holding.ticker, Abs(delta))))
            ELSE \* SELL: max(0.0, projected - delta), with delta the negative number
                 ExistingDeltas(cat, p, Tail(holdings), targets,
                     [projected EXCEPT ![sector] = Max(0, @ - delta)],
                     Append(actions, Action("SELL", holding.ticker, Abs(delta))))
        ELSE ExistingDeltas(cat, p, Tail(holdings), targets, projected, actions)

\* "Add new holdings, respecting sector limits": the loop over new_holdings_to_add
RECURSIVE NewHoldingBuys(_, _, _, _, _, _, _)
NewHoldingBuys(cat, p, new, targets, projected, actions, warnings) ==
    IF new = <<>> THEN [actions |-> actions, warnings |-> warnings, projected |-> projected]
    ELSE
    LET ticker == Upper(Head(new).ticker)
        sector == get_ticker_sector(cat, ticker)
        weight0 == Min(IF IsPreferred(cat, p, ticker) THEN targets.preferred ELSE targets.other,
                       MaxPosition(p))
        current_sector_total == projected[sector]
        over == current_sector_total + weight0 > MaxSectorWeight(p)
        weight == IF over THEN Max(0, MaxSectorWeight(p) - current_sector_total) ELSE weight0
    IN  IF over /\ weight < Milli(1)
        THEN NewHoldingBuys(cat, p, Tail(new), targets, projected, actions,
                 Append(warnings, [kind |-> "sector_limit", ticker |-> ticker]))
        ELSE NewHoldingBuys(cat, p, Tail(new), targets,
                 [projected EXCEPT ![sector] = @ + weight],
                 Append(actions, Action("BUY", ticker, weight)), warnings)

\* the forced SELL of one holding for each exclusion its ticker contains
RECURSIVE ExclusionSellsOf(_, _)
ExclusionSellsOf(holding, exclusions) ==
    IF exclusions = <<>> THEN <<>>
    ELSE (IF Contains(Lower(Head(exclusions)), Lower(holding.ticker))
          THEN << Action("SELL", holding.ticker, holding.weight) >> ELSE <<>>)
         \o ExclusionSellsOf(holding, Tail(exclusions))

\* "Check exclusions": the SELL actions the loop appends, in its order; it
\* appends one warning with each
RECURSIVE ExclusionSells(_, _)
ExclusionSells(holdings, exclusions) ==
    IF holdings = <<>> THEN <<>>
    ELSE ExclusionSellsOf(Head(holdings), exclusions)
         \o ExclusionSells(Tail(holdings), exclusions)

\* the warning appended with each forced SELL
ExclusionWarnings(holdings, exclusions) ==
    LET sells == ExclusionSells(holdings, exclusions)
    IN  [i \in DOMAIN sells |-> [kind |-> "exclusion", ticker |-> sells[i].ticker]]

-----------------------------------------------------------------------------
(* compute_rebalance_plan: normalization and the final safety check *)

\* d[k] = v
Put(d, k, v) == [x \in DOMAIN d \cup {k} |-> IF x = k THEN v ELSE d[x]]

\* d.pop(k, None)
Drop(d, k) == [x \in DOMAIN d \ {k} |-> d[x]]

\* sum(d.values())
RECURSIVE SumValues(_)
SumValues(d) ==
    IF DOMAIN d = {} THEN 0
    ELSE LET k == CHOOSE x \in DOMAIN d : TRUE IN d[k] + SumValues(Drop(d, k))

\* final_weights after "Apply all actions to get final weights": a BUY adds, a
\* SELL subtracts down to 0.0 and drops the ticker when less than 0.001 is left
RECURSIVE ApplyActions(_, _)
ApplyActions(weights, actions) ==
    IF actions = <<>> THEN weights
    ELSE LET a == Head(actions)
             ticker == Upper(a.ticker)
             current == IF ticker \in DOMAIN weights THEN weights[ticker] ELSE 0
         IN  IF a.action = "BUY"
             THEN ApplyActions(Put(weights, ticker, current + a.delta_weight), Tail(actions))
             ELSE LET left == Max(0, current - a.delta_weight)
                  IN  ApplyActions(IF left < Milli(1) THEN Drop(weights, ticker)
                                   ELSE Put(weights, ticker, left),
                                   Tail(actions))

\* the weights the simulation starts from: {ticker.upper(): weight}
StartWeights(pf) ==
    [tk \in CurrentTickers(pf) |->
        pf.holdings[CHOOSE i \in DOMAIN pf.holdings : Upper(pf.holdings[i].ticker) = tk].weight]

\* total equity after applying actions to the current holdings
EquityAfter(pf, actions) == SumValues(ApplyActions(StartWeights(pf), actions))

\* the normalization scaling every action, SELLs included
ScaleBuys_AllActions(actions, num, den) ==
    [i \in DOMAIN actions |->
        [actions[i] EXCEPT !.delta_weight = Scale(@, num, den)]]

\* "for action in actions: if action.action == 'BUY': action.delta_weight *= scale"
ScaleBuys(actions, num, den) ==
    [i \in DOMAIN actions |->
        IF actions[i].action = "BUY"
        THEN [actions[i] EXCEPT !.delta_weight = Scale(@, num, den)]
        ELSE actions[i]]

\* 1.0 - MIN_CASH_PCT
max_equity_allowed == ONE - MIN_CASH_PCT

\* "Verify and normalize actions to ensure portfolio sums to target equity
\* allocation": the actions and the note it may add
NormalizeActions(pf, actions, total_target_equity) ==
    LET total_equity_after == EquityAfter(pf, actions)
        capped_target_equity == Min(total_target_equity, max_equity_allowed)
    IN  IF total_equity_after > Milli(1)
           /\ Abs(total_equity_after - capped_target_equity) > Pct(1)
        THEN [actions |-> ScaleBuys(actions, capped_target_equity, total_equity_after),
              \* abs(scale_factor - 1.0) > 0.01
              notes |-> IF Abs(capped_target_equity - total_equity_after) * 100
                              > total_equity_after
                        THEN <<"actions_normalized">> ELSE <<>>]
        ELSE [actions |-> actions, notes |-> <<>>]

\* the rounding block of the final safety check: tef is total_equity_final and
\* cash is final_cash, which the code sets rather than recomputes after a scaling
SafetyRounding(actions, tef0, cash0) ==
    IF tef0 + cash0 > ONE + Milli(1) THEN
        IF tef0 > max_equity_allowed
        THEN [actions |-> ScaleBuys(actions, max_equity_allowed, tef0),
              tef |-> max_equity_allowed, cash |-> MIN_CASH_PCT,
              notes |-> <<>>, warnings |-> <<[kind |-> "exceeded_100"]>>]
        ELSE [actions |-> actions, tef |-> tef0, cash |-> cash0,
              notes |-> <<>>, warnings |-> <<>>]
    ELSE IF tef0 + cash0 > ONE /\ (\E i \in DOMAIN actions : actions[i].action = "BUY")
    THEN [actions |-> IF tef0 > 0
                      THEN ScaleBuys(actions, tef0 - (tef0 + cash0 - ONE), tef0)
                      ELSE actions,
          tef |-> tef0 - (tef0 + cash0 - ONE), cash |-> cash0,
          notes |-> <<"rounding_fixed">>, warnings |-> <<>>]
    ELSE [actions |-> actions, tef |-> tef0, cash |-> cash0,
          notes |-> <<>>, warnings |-> <<>>]

\* "Ensure minimum cash is maintained"
SafetyMinimumCash(s1) ==
    IF (s1.cash < MIN_CASH_PCT \/ s1.tef > max_equity_allowed)
       /\ s1.tef > max_equity_allowed
    THEN [actions |-> ScaleBuys(s1.actions, max_equity_allowed, s1.tef),
          tef |-> max_equity_allowed, cash |-> MIN_CASH_PCT,
          notes |-> Append(s1.notes, "equity_reduced"), warnings |-> s1.warnings]
    ELSE s1

\* "Final safety check" up to the last cash note
SafetyPass(pf, actions, t) ==
    LET s2 == SafetyMinimumCash(SafetyRounding(actions, EquityAfter(pf, actions),
                                               Max(t.cash, MIN_CASH_PCT)))
    IN  [actions |-> s2.actions,
         notes |-> s2.notes \o (IF s2.cash = MIN_CASH_PCT /\ t.cash < MIN_CASH_PCT
                                THEN <<"cash_minimum">>
                                ELSE IF Abs(s2.cash - t.cash) > Milli(1)
                                THEN <<"cash_changed">>
                                ELSE <<>>),
         warnings |-> s2.warnings,
         final_cash |-> s2.cash]

\* the plan returned: the final safety check on the normalized actions
PlanChecked(pf, t, notes, warnings, norm) ==
    LET safe == SafetyPass(pf, norm.actions, t)
    IN  [returned |-> TRUE,
         actions  |-> safe.actions,
         notes    |-> notes \o norm.notes \o safe.notes,
         warnings |-> warnings \o safe.warnings]

\* the plan once the loops over the holdings have made their actions: the
\* notes and warnings of the plan, the exclusion SELLs, the normalization
PlanFromActions(cat, pf, p, t, new, targets, added) ==
    PlanChecked(pf, t,
        (IF new # <<>> THEN <<"adding_new_holdings">> ELSE <<>>)
        \o (IF Abs(t.cash - pf.cash_weight) > Milli(1) THEN <<"adjust_cash">> ELSE <<>>)
        \o (IF has_sector_concentration(cat, pf, p) \/ is_risk_averse(p)
            THEN <<"sector_limits">> ELSE <<>>)
        \o (IF p.sectors_like # <<>> THEN <<"preferred_coverage">> ELSE <<>>)
        \o (IF t.cash > Pct(15) THEN <<"high_cash">> ELSE <<>>)
        \o (IF t.thematic_sectors > Pct(10) /\ p.sectors_like # <<>>
            THEN <<"elevated_preferred">> ELSE <<>>)
        \o (IF is_long_term(p) /\ (is_too_concentrated(pf, p) \/ is_highly_concentrated(pf))
            THEN <<"long_term_diversification">> ELSE <<>>),
        added.warnings
        \o (IF targets.total_holdings_count + (IF t.cash > 0 THEN 1 ELSE 0) > p.max_holdings
            THEN <<[kind |-> "holdings_count"]>> ELSE <<>>)
        \o ExclusionWarnings(pf.holdings, p.exclusions),
        NormalizeActions(pf, added.actions \o ExclusionSells(pf.holdings, p.exclusions),
                         targets.total_target_equity))

\* the plan once the per-holding targets are known: the loop over the existing
\* holdings, then the loop over the new ones
PlanFromTargets(cat, pf, p, t, new, targets) ==
    LET existing == ExistingDeltas(cat, p, pf.holdings, targets,
                                   CurrentSectorWeights(cat, pf), <<>>)
    IN  PlanFromActions(cat, pf, p, t, new, targets,
            NewHoldingBuys(cat, p, new, targets, existing.projected,
                           existing.actions, <<>>))

\* the plan once the new holdings are selected; no return at all when the
\* diversification fill loop does not end
PlanFromSelection(cat, pf, p, t, sel) ==
    IF sel.diverged THEN [returned |-> FALSE]
    ELSE PlanFromTargets(cat, pf, p, t, sel.new, HoldingTargets(cat, pf, p, t, sel.new))

\* compute_rebalance_plan(current_portfolio, profile, target): the plan, or
\* no return at all when the diversification fill loop does not end
compute_rebalance_plan(cat, pf, p, t) ==
    PlanFromSelection(cat, pf, p, t, SelectNewHoldings(cat, pf, p))

-----------------------------------------------------------------------------
(* construct_portfolio_from_scratch: the candidate universe and the selection *)

\* all_available_sectors: the catalog's sectors without the avoided ones
all_available_sectors(cat, p) == Without(AllSectorNames(cat), p.sectors_avoid)

\* thematic_stocks: the stocks of the liked sectors, exclusions NOT filtered
thematic_stocks(cat, p, t) ==
    IF t.thematic_sectors > 0 /\ p.sectors_like # <<>> /\ ~is_risk_averse(p)
    THEN get_stocks_for_sectors(cat, p.sectors_like)
    ELSE <<>>

\* [stock for stock in stocks if no exclusion is contained in its ticker]
NotExcluded(stocks, exclusions) ==
    FilterSeq(LAMBDA s : ~IsExcluded(s.ticker, exclusions), stocks)

\* {s['ticker'].upper() for s in stocks}
Tickers(stocks) == {Upper(stocks[i].ticker) : i \in DOMAIN stocks}

\* core_sectors
core_sectors(cat, p) ==
    IF is_risk_averse(p) \/ p.sectors_like = <<>> THEN all_available_sectors(cat, p)
    ELSE p.sectors_like \o Without(all_available_sectors(cat, p), p.sectors_like)

\* all_stocks: the unexcluded thematic stocks, then the unexcluded core stocks
\* not yet in the list.  Section "3. Defensive allocation" only fills a local
\* list that is never read, so it adds nothing here.
all_stocks(cat, p, t) ==
    LET thematic == NotExcluded(thematic_stocks(cat, p, t), p.exclusions)
        core == IF t.core_equity > 0
                THEN NotExcluded(get_stocks_for_sectors(cat, core_sectors(cat, p)),
                                 p.exclusions)
                ELSE <<>>
    IN  thematic \o FilterSeq(LAMBDA s : Upper(s.ticker) \notin Tickers(thematic), core)

\* get_stock_sector(stock): every stock here comes from get_stocks_for_sectors,
\* which sets 'sector'
get_stock_sector(stock) == stock.sector

\* the keys of a dict that groups stocks by sector, in insertion order
RECURSIVE SectorOrder(_, _)
SectorOrder(stocks, seen) ==
    IF stocks = <<>> THEN <<>>
    ELSE IF get_stock_sector(Head(stocks)) \in seen THEN SectorOrder(Tail(stocks), seen)
    ELSE <<get_stock_sector(Head(stocks))>>
         \o SectorOrder(Tail(stocks), seen \cup {get_stock_sector(Head(stocks))})

\* the value such a dict holds for one sector
StocksOfSector(stocks, sector) ==
    FilterSeq(LAMBDA s : get_stock_sector(s) = sector, stocks)

\* can_add_from_sector(sector, weight_to_add); sector_weights is still empty
\* wherever the selection calls it
can_add_from_sector(p, weight_to_add) == 0 + weight_to_add <= MaxSectorWeight(p)

\* max(3, int(max_holdings * target.thematic_sectors / total_equity))
ThematicLimit(p, t) ==
    Max(3, (p.max_holdings * t.thematic_sectors)
             \div (t.core_equity + t.thematic_sectors + t.defensive))

\* "for stock in stocks_in_sector[:2]" of Step 1
RECURSIVE ThematicFromSector(_, _, _)
ThematicFromSector(stocks, chosen, limit) ==
    IF stocks = <<>> THEN chosen
    ELSE IF Upper(Head(stocks).ticker) \in Tickers(chosen)
         THEN ThematicFromSector(Tail(stocks), chosen, limit)
    ELSE LET next == Append(chosen, Head(stocks))
         IN  IF Len(next) >= limit THEN next
             ELSE ThematicFromSector(Tail(stocks), next, limit)

\* "for sector, stocks_in_sector in thematic_stocks_by_sector.items()"
RECURSIVE ThematicFromSectors(_, _, _, _, _)
ThematicFromSectors(sectors, stocks, chosen, limit, can_add) ==
    IF sectors = <<>> THEN chosen
    ELSE IF ~can_add THEN ThematicFromSectors(Tail(sectors), stocks, chosen, limit, can_add)
    ELSE LET in_sector == StocksOfSector(stocks, Head(sectors))
             next == ThematicFromSector(SubSeq(in_sector, 1, Min(2, Len(in_sector))),
                                        chosen, limit)
         IN  IF Len(next) >= limit THEN next
             ELSE ThematicFromSectors(Tail(sectors), stocks, next, limit, can_add)

\* Step 1: selected_stocks after the thematic stocks are added
ThematicSelection(cat, p, t) ==
    LET thematic == thematic_stocks(cat, p, t)
        sectors == SectorOrder(thematic, {})
    IN  IF t.thematic_sectors > 0 /\ thematic # <<>> /\ ~is_risk_averse(p)
        THEN ThematicFromSectors(sectors, thematic, <<>>, ThematicLimit(p, t),
                                 can_add_from_sector(p, t.thematic_sectors \div Len(sectors)))
        ELSE <<>>

\* set(get_stock_sector(s) for s in selected_stocks)
SelectedSectors(selected) == {get_stock_sector(selected[i]) : i \in DOMAIN selected}

\* the stocks of a list whose ticker is not in seen_tickers, which is always
\* the set of the selected tickers
Unseen(stocks, selected) ==
    FilterSeq(LAMBDA s : Upper(s.ticker) \notin Tickers(selected), stocks)

\* Step 2, "ensure we have stocks from at least min_sectors different sectors"
RECURSIVE CoverSectors(_, _, _, _, _, _)
CoverSectors(sectors, grouped, current_sectors, selected, remaining_slots, sectors_needed) ==
    IF sectors = <<>> THEN [selected |-> selected, remaining_slots |-> remaining_slots]
    ELSE LET unseen == Unseen(StocksOfSector(grouped, Head(sectors)), selected)
         IN  IF /\ Head(sectors) \notin current_sectors
                /\ sectors_needed > 0
                /\ remaining_slots > 0
                /\ unseen # <<>>
             THEN CoverSectors(Tail(sectors), grouped, current_sectors,
                               Append(selected, Head(unseen)),
                               remaining_slots - 1, sectors_needed - 1)
             ELSE CoverSectors(Tail(sectors), grouped, current_sectors,
                               selected, remaining_slots, sectors_needed)

\* sector_counts.get(s, 0): one count per selected stock of the sector
SectorCount(selected, sector) == Len(StocksOfSector(selected, sector))

\* the sort key of Step 3 orders a before b
FillKeyBefore(a, b, grouped, selected) ==
    \/ SectorCount(selected, a) < SectorCount(selected, b)
    \/ /\ SectorCount(selected, a) = SectorCount(selected, b)
       /\ Len(StocksOfSector(grouped, a)) > Len(StocksOfSector(grouped, b))

\* sorted(sectors, key=...): stable, so x goes behind every key not after its own
RECURSIVE InsertByKey(_, _, _, _)
InsertByKey(x, sorted, grouped, selected) ==
    IF sorted = <<>> THEN <<x>>
    ELSE IF FillKeyBefore(x, Head(sorted), grouped, selected) THEN <<x>> \o sorted
    ELSE <<Head(sorted)>> \o InsertByKey(x, Tail(sorted), grouped, selected)

RECURSIVE SortSectors(_, _, _, _)
SortSectors(sectors, sorted, grouped, selected) ==
    IF sectors = <<>> THEN sorted
    ELSE SortSectors(Tail(sectors), InsertByKey(Head(sectors), sorted, grouped, selected),
                     grouped, selected)

\* sum(1 for s in stocks if validate_ticker_in_sectors(s['ticker'], sectors_like or []))
PreferredCount(cat, stocks, sectors_like) ==
    Len(FilterSeq(LAMBDA s : validate_ticker_in_sectors(cat, s.ticker, sectors_like), stocks))

\* "for stock in stocks_in_sector" of Step 3: every unseen stock of the sector
\* is added until no slot remains
RECURSIVE FillFromSector(_, _, _, _)
FillFromSector(stocks, st, cat, sectors_like) ==
    IF stocks = <<>> THEN st
    ELSE IF Upper(Head(stocks).ticker) \in Tickers(st.selected)
         THEN FillFromSector(Tail(stocks), st, cat, sectors_like)
    ELSE LET preferred == validate_ticker_in_sectors(cat, Head(stocks).ticker, sectors_like)
             next == [st EXCEPT !.selected = Append(@, Head(stocks)),
                                !.remaining_slots = @ - 1,
                                !.preferred_added = IF preferred THEN @ + 1 ELSE @,
                                !.other_added = IF preferred THEN @ ELSE @ + 1]
         IN  IF next.remaining_slots <= 0 THEN next
             ELSE FillFromSector(Tail(stocks), next, cat, sectors_like)

\* "while remaining_slots > 0" of Step 3
RECURSIVE FillLoop(_, _, _, _, _, _, _, _)
FillLoop(st, preferred_sorted, other_sorted, preferred_target, grouped, cat, p, t) ==
    IF st.remaining_slots <= 0 THEN st
    ELSE LET should_add_preferred ==
                 /\ st.preferred_added < preferred_target
                 /\ st.preferred_idx < Len(preferred_sorted)
             should_add_other ==
                 /\ \/ st.other_added >= st.preferred_added
                    \/ st.preferred_idx >= Len(preferred_sorted)
                 /\ st.other_idx < Len(other_sorted)
         IN  IF ~should_add_preferred /\ ~should_add_other THEN st
             ELSE LET sector_to_use == IF should_add_preferred
                                       THEN preferred_sorted[st.preferred_idx + 1]
                                       ELSE other_sorted[st.other_idx + 1]
                      st1 == IF should_add_preferred
                             THEN [st EXCEPT !.preferred_idx = @ + 1]
                             ELSE [st EXCEPT !.other_idx = @ + 1]
                      estimated_weight_per_stock ==
                          t.core_equity \div Max(st.remaining_slots, 1)
                      st2 == IF can_add_from_sector(p, estimated_weight_per_stock)
                             THEN FillFromSector(StocksOfSector(grouped, sector_to_use),
                                                 st1, cat, p.sectors_like)
                             ELSE st1
                  IN  FillLoop(st2, preferred_sorted, other_sorted, preferred_target,
                               grouped, cat, p, t)

\* Step 3: "Fill remaining slots"
FillSlots(cat, p, t, grouped, selected, remaining_slots) ==
    IF remaining_slots <= 0 THEN selected
    ELSE LET keys == SectorOrder(grouped, {})
             preferred_sorted == SortSectors(Within(keys, p.sectors_like), <<>>,
                                             grouped, selected)
             other_sorted == SortSectors(Without(keys, p.sectors_like), <<>>,
                                         grouped, selected)
             preferred_added == PreferredCount(cat, selected, p.sectors_like)
             \* int(remaining_slots * 0.6)
             preferred_target == IF p.sectors_like # <<>>
                                 THEN (remaining_slots * 6) \div 10 ELSE 0
         IN  FillLoop([selected |-> selected, remaining_slots |-> remaining_slots,
                       preferred_idx |-> 0, other_idx |-> 0,
                       preferred_added |-> preferred_added,
                       other_added |-> Len(selected) - preferred_added],
                      preferred_sorted, other_sorted, preferred_target, grouped, cat,
                      p, t).selected

\* "Fallback: If we still don't have enough stocks, add from any available sector"
RECURSIVE Fallback(_, _)
Fallback(stocks, selected) ==
    IF stocks = <<>> THEN selected
    ELSE IF Upper(Head(stocks).ticker) \in Tickers(selected)
         THEN Fallback(Tail(stocks), selected)
    ELSE IF Len(selected) + 1 >= 3 THEN Append(selected, Head(stocks))
    ELSE Fallback(Tail(stocks), Append(selected, Head(stocks)))

\* Steps 2 and 3 and the fallback, from all_stocks and the thematic stocks
\* Step 1 selected
SelectFromUniverse(cat, p, t, universe, seeded) ==
    LET grouped == Unseen(universe, seeded)
        covered == CoverSectors(SectorOrder(grouped, {}), grouped, SelectedSectors(seeded),
                                seeded, p.max_holdings - Len(seeded),
                                Max(0, MinSectors(p) - Cardinality(SelectedSectors(seeded))))
        filled == FillSlots(cat, p, t, grouped, covered.selected, covered.remaining_slots)
    IN  IF Len(filled) < 3 /\ universe # <<>> THEN Fallback(universe, filled) ELSE filled

\* selected_stocks when the weights are computed
SelectStocks(cat, p, t) ==
    SelectFromUniverse(cat, p, t, all_stocks(cat, p, t), ThematicSelection(cat, p, t))

-----------------------------------------------------------------------------
(* construct_portfolio_from_scratch: weights, scaling and the safety block *)

\* one pass of "for stock in ...: weight = min(per_stock, max_position); apply
\* sector limit; holdings_dict[ticker].weight += weight".  w maps tickers to the
\* weight given so far, sw is sector_weights; the core pass also caps the
\* holding's total at max_position.
RECURSIVE AssignWeights(_, _, _, _, _, _)
AssignWeights(stocks, per_stock, p, w, sw, is_core) ==
    IF stocks = <<>> THEN [w |-> w, sector_weights |-> sw]
    ELSE LET ticker == Head(stocks).ticker
             sector == get_stock_sector(Head(stocks))
             uncut == Min(per_stock, MaxPosition(p))
             weight == IF sw[sector] + uncut > MaxSectorWeight(p)
                       THEN Max(0, MaxSectorWeight(p) - sw[sector])
                       ELSE uncut
             total == IF is_core THEN Min(w[ticker] + weight, MaxPosition(p))
                      ELSE w[ticker] + weight
         IN  AssignWeights(Tail(stocks), per_stock, p,
                           [w EXCEPT ![ticker] = total],
                           [sw EXCEPT ![sector] = @ + weight], is_core)

\* list(holdings_dict.values()): one holding per key, in insertion order
HoldingsOf(keys, weights) ==
    [i \in DOMAIN keys |->
        [ticker |-> Upper(keys[i].ticker), weight |-> weights.w[keys[i].ticker]]]

\* "Allocate core equity" over all_stocks_for_core, on top of the thematic weights
CoreWeights(p, all_stocks_for_core, effective_core_equity, thematic) ==
    IF all_stocks_for_core # <<>> /\ effective_core_equity > 0
    THEN AssignWeights(all_stocks_for_core,
                       effective_core_equity \div Len(all_stocks_for_core),
                       p, thematic.w, thematic.sector_weights, TRUE)
    ELSE thematic

\* "Allocate thematic sectors" over the preferred stocks, from empty dicts
ThematicWeights(cat, p, t, selected, preferred) ==
    IF preferred # <<>> /\ t.thematic_sectors > 0 /\ ~is_risk_averse(p)
    THEN AssignWeights(preferred, t.thematic_sectors \div Len(preferred), p,
                       [tk \in {selected[i].ticker : i \in DOMAIN selected} |-> 0],
                       [sec \in SectorKeys(cat) |-> 0], FALSE)
    ELSE [w |-> [tk \in {selected[i].ticker : i \in DOMAIN selected} |-> 0],
          sector_weights |-> [sec \in SectorKeys(cat) |-> 0]]

\* holdings = list(holdings_dict.values()) before the normalization: thematic
\* weights for the preferred stocks, core weights for all of them
InitialHoldings(cat, p, t, selected) ==
    LET effective_core_equity ==
            IF is_risk_averse(p) /\ t.thematic_sectors > 0
            THEN t.core_equity + t.thematic_sectors ELSE t.core_equity
        preferred == FilterSeq(LAMBDA s : IsPreferred(cat, p, Upper(s.ticker)), selected)
        other == FilterSeq(LAMBDA s : ~IsPreferred(cat, p, Upper(s.ticker)), selected)
        all_stocks_for_core == preferred \o other
        with_thematic == preferred # <<>> /\ t.thematic_sectors > 0 /\ ~is_risk_averse(p)
        with_core == all_stocks_for_core # <<>> /\ effective_core_equity > 0
    IN  HoldingsOf(IF with_core THEN all_stocks_for_core
                   ELSE IF with_thematic THEN preferred ELSE <<>>,
                   CoreWeights(p, all_stocks_for_core, effective_core_equity,
                               ThematicWeights(cat, p, t, selected, preferred)))

\* sum(h.weight for h in holdings if (get_ticker_sector(h.ticker) or 'Unknown') == sector)
HoldingsSectorWeight(cat, holdings, sector) ==
    SumSeq([i \in DOMAIN holdings |->
              IF get_ticker_sector(cat, holdings[i].ticker) = sector
              THEN holdings[i].weight ELSE 0])

\* the scale applied as computed, never lowered for a sector over its limit
AdjustScale_Unadjusted(sectors, cat, p, holdings, scale, adjusted) == scale

\* scale_adjusted as a fraction: target_equity / total_weight, lowered to
\* max_sector_weight / current_sector_weight for each sector that the scaled
\* and capped weights would take over its limit
RECURSIVE AdjustScale(_, _, _, _, _, _)
AdjustScale(sectors, cat, p, holdings, scale, adjusted) ==
    IF sectors = <<>> THEN adjusted
    ELSE LET sector == Head(sectors)
             scaled == [i \in DOMAIN holdings |->
                          [ticker |-> holdings[i].ticker,
                           weight |-> Min(Scale(holdings[i].weight, scale.num, scale.den),
                                          MaxPosition(p))]]
             sector_total == HoldingsSectorWeight(cat, scaled, sector)
             current_sector_weight == HoldingsSectorWeight(cat, holdings, sector)
             lower == /\ sector_total > MaxSectorWeight(p)
                      /\ current_sector_weight > 0
                      /\ MaxSectorWeight(p) * adjusted.den < adjusted.num * current_sector_weight
         IN  AdjustScale(Tail(sectors), cat, p, holdings, scale,
                         IF lower THEN [num |-> MaxSectorWeight(p), den |-> current_sector_weight]
                         ELSE adjusted)

\* the remainder distribution without the room left under the position cap
RECURSIVE DistributeRemainder_NoPositionRoom(_, _, _, _, _, _)
DistributeRemainder_NoPositionRoom(with_capacity, per_holding, remainder, holdings, cat, p) ==
    IF with_capacity = <<>> \/ remainder <= 0 THEN holdings
    ELSE LET i == Head(with_capacity)
             sector == get_ticker_sector(cat, holdings[i].ticker)
             available_in_sector ==
                 MaxSectorWeight(p) - HoldingsSectorWeight(cat, holdings, sector)
             additional == Min(Min(per_holding, available_in_sector), remainder)
         IN  IF additional > 0
             THEN DistributeRemainder_NoPositionRoom(
                      Tail(with_capacity), per_holding, remainder - additional,
                      [holdings EXCEPT ![i].weight = @ + additional], cat, p)
             ELSE DistributeRemainder_NoPositionRoom(
                      Tail(with_capacity), per_holding, remainder, holdings, cat, p)

\* "If after capping we're still short, distribute remainder": the loop over
\* sectors_with_capacity, given as holding indexes
RECURSIVE DistributeRemainder(_, _, _, _, _, _)
DistributeRemainder(with_capacity, per_holding, remainder, holdings, cat, p) ==
    IF with_capacity = <<>> \/ remainder <= 0 THEN holdings
    ELSE LET i == Head(with_capacity)
             sector == get_ticker_sector(cat, holdings[i].ticker)
             available_in_sector ==
                 MaxSectorWeight(p) - HoldingsSectorWeight(cat, holdings, sector)
             available_in_position == MaxPosition(p) - holdings[i].weight
             additional == Min(Min(per_holding, available_in_sector),
                               Min(available_in_position, remainder))
         IN  IF additional > 0
             THEN DistributeRemainder(Tail(with_capacity), per_holding,
                                      remainder - additional,
                                      [holdings EXCEPT ![i].weight = @ + additional], cat, p)
             ELSE DistributeRemainder(Tail(with_capacity), per_holding, remainder,
                                      holdings, cat, p)

\* the branch "elif target_equity > 0 and holdings": equal weights within the
\* sector limits
RECURSIVE EqualWeights(_, _, _, _, _, _)
EqualWeights(i, equal_weight, holdings, sector_weights_final, cat, p) ==
    IF i > Len(holdings) THEN holdings
    ELSE LET sector == get_ticker_sector(cat, holdings[i].ticker)
             current_sector_total == sector_weights_final[sector]
         IN  IF current_sector_total + equal_weight <= MaxSectorWeight(p)
             THEN EqualWeights(i + 1, equal_weight,
                               [holdings EXCEPT ![i].weight = equal_weight],
                               [sector_weights_final EXCEPT ![sector] = @ + equal_weight],
                               cat, p)
             ELSE EqualWeights(i + 1, equal_weight,
                               [holdings EXCEPT ![i].weight =
                                    Max(0, MaxSectorWeight(p) - current_sector_total)],
                               [sector_weights_final EXCEPT ![sector] = MaxSectorWeight(p)],
                               cat, p)

\* "holding.weight = min(holding.weight * scale_adjusted, max_position)"
CapScaled(p, holdings, scale_adjusted) ==
    [i \in DOMAIN holdings |->
        [ticker |-> holdings[i].ticker,
         weight |-> Min(Scale(holdings[i].weight, scale_adjusted.num, scale_adjusted.den),
                        MaxPosition(p))]]

\* "If after capping we're still short, distribute remainder" over
\* sectors_with_capacity, given as holding indexes
TopUp(cat, p, target_equity, scaled) ==
    LET scaled_total == SumSeq(HoldingWeights(scaled))
        remainder == target_equity - scaled_total
        with_capacity ==
            FilterSeq(LAMBDA i :
                         /\ HoldingsSectorWeight(cat, scaled,
                                                 get_ticker_sector(cat, scaled[i].ticker))
                               < MaxSectorWeight(p)
                         /\ scaled[i].weight < MaxPosition(p),
                      [i \in DOMAIN scaled |-> i])
    IN  IF scaled_total < target_equity /\ with_capacity # <<>>
        THEN DistributeRemainder(with_capacity, remainder \div Len(with_capacity),
                                 remainder, scaled, cat, p)
        ELSE scaled

\* "Normalize weights to ensure total equity allocation is correct"
NormalizeHoldings(cat, p, t, holdings) ==
    LET target_equity == ONE - t.cash
        total_weight == SumSeq(HoldingWeights(holdings))
        scale == [num |-> target_equity, den |-> total_weight]
    IN  IF total_weight > 0
        THEN TopUp(cat, p, target_equity,
                   CapScaled(p, holdings,
                             AdjustScale(AllSectorNames(cat) \o <<"Unknown">>, cat, p,
                                         holdings, scale, scale)))
        ELSE IF target_equity > 0 /\ holdings # <<>>
        THEN EqualWeights(1, Min(target_equity \div Len(holdings), MaxPosition(p)),
                          holdings, [sec \in SectorKeys(cat) |-> 0], cat, p)
        ELSE holdings

\* "holding.weight *= scale" for every holding
ScaleHoldings(holdings, num, den) ==
    [i \in DOMAIN holdings |->
        [ticker |-> holdings[i].ticker, weight |-> Scale(holdings[i].weight, num, den)]]

\* the actions left as they were created, not updated to the final weights
UpdateActions_Stale(actions, holdings) == actions

\* "for i, action in enumerate(actions): if i < len(holdings):
\*      action.delta_weight = holdings[i].weight"
UpdateActions(actions, holdings) ==
    [i \in DOMAIN actions |->
        IF i <= Len(holdings)
        THEN [actions[i] EXCEPT !.delta_weight = holdings[i].weight]
        ELSE actions[i]]

\* "if actual_equity > max_equity_allowed"
BlockEquityCap(s0) ==
    LET equity == SumSeq(HoldingWeights(s0.holdings))
        hs == ScaleHoldings(s0.holdings, max_equity_allowed, equity)
    IN  IF equity > max_equity_allowed
        THEN [s0 EXCEPT !.holdings = hs,
                        !.actions = UpdateActions(@, hs),
                        !.final_cash = MIN_CASH_PCT,
                        !.warnings = Append(@, [kind |-> "equity_scaled_down"])]
        ELSE s0

\* "Handle rounding errors"
BlockRounding(s1) ==
    LET equity == SumSeq(HoldingWeights(s1.holdings))
        total == equity + s1.final_cash
        hs == IF equity > 0 THEN ScaleHoldings(s1.holdings, max_equity_allowed, equity)
              ELSE s1.holdings
    IN  IF total > ONE + Milli(1)
        THEN [s1 EXCEPT !.holdings = hs,
                        !.actions = UpdateActions(@, hs),
                        !.final_cash = MIN_CASH_PCT,
                        !.warnings = Append(@, [kind |-> "exceeded_100"])]
        ELSE IF total > ONE
        THEN [s1 EXCEPT !.final_cash = Max(MIN_CASH_PCT, @ - (total - ONE)),
                        !.notes = Append(@, "rounding_fixed")]
        ELSE s1

\* "Final check: ensure minimum cash is maintained"
BlockMinimumCash(s2) ==
    LET equity == SumSeq(HoldingWeights(s2.holdings))
        hs == ScaleHoldings(s2.holdings, ONE - MIN_CASH_PCT, equity)
    IN  IF s2.final_cash < MIN_CASH_PCT
        THEN IF /\ equity + s2.final_cash > ONE - MIN_CASH_PCT
                /\ equity > ONE - MIN_CASH_PCT
             THEN [s2 EXCEPT !.holdings = hs,
                             !.actions = UpdateActions(@, hs),
                             !.final_cash = MIN_CASH_PCT,
                             !.notes = Append(@, "equity_reduced")]
             ELSE [s2 EXCEPT !.final_cash = MIN_CASH_PCT]
        ELSE s2

\* "Last resort: adjust cash to make it sum to exactly 1.0"
BlockLastResort(s3) ==
    LET equity == SumSeq(HoldingWeights(s3.holdings))
        adjusted_cash == Max(MIN_CASH_PCT, ONE - equity)
    IN  IF Abs(equity + s3.final_cash - ONE) > Milli(1) /\ adjusted_cash # s3.final_cash
        THEN [s3 EXCEPT !.final_cash = adjusted_cash,
                        !.warnings = Append(@, [kind |-> "cash_adjusted"])]
        ELSE s3

\* "Final safety check: ensure portfolio doesn't exceed 100% and maintains
\* minimum cash", from the holdings and actions the normalization left
SafetyBlock(holdings, actions, t) ==
    BlockLastResort(BlockMinimumCash(BlockRounding(BlockEquityCap(
        [holdings |-> holdings, actions |-> actions,
         final_cash |-> Max(t.cash, MIN_CASH_PCT),
         notes |-> <<>>, warnings |-> <<>>]))))

\* the portfolio and the plan returned
ConstructResult(p, t, safe) ==
    [portfolio |-> [holdings |-> safe.holdings, cash_weight |-> safe.final_cash],
     plan |-> [returned |-> TRUE, actions |-> safe.actions,
               notes |->
                   (IF is_risk_averse(p) /\ t.thematic_sectors > 0
                    THEN <<"thematic_redistributed">> ELSE <<>>)
                   \o safe.notes
                   \o <<"constructed">>
                   \o (IF t.thematic_sectors > 0 /\ p.sectors_like # <<>>
                       THEN <<"thematic_focus">> ELSE <<>>)
                   \o (IF safe.final_cash >= MIN_CASH_PCT
                       THEN IF safe.final_cash = MIN_CASH_PCT /\ t.cash < MIN_CASH_PCT
                            THEN <<"cash_minimum">> ELSE <<"cash_allocation">>
                       ELSE <<>>),
               warnings |-> safe.warnings]]

\* "Create actions": one BUY per holding at its first weight; the
\* normalization; "Update actions with final weights"; the safety block
ConstructFromHoldings(cat, p, t, first) ==
    LET normalized == NormalizeHoldings(cat, p, t, first)
    IN  ConstructResult(p, t,
            SafetyBlock(normalized,
                UpdateActions([i \in DOMAIN first |->
                                  Action("BUY", first[i].ticker, first[i].weight)],
                              normalized),
                t))

\* "if not selected_stocks": nothing to construct, all cash
ConstructFromSelected(cat, p, t, selected) ==
    IF selected = <<>>
    THEN [portfolio |-> [holdings |-> <<>>, cash_weight |-> ONE],
          plan |-> [returned |-> TRUE, actions |-> <<>>,
                    notes |-> <<"unable_to_construct">>,
                    warnings |-> <<[kind |-> "no_stocks_selected"]>>]]
    ELSE ConstructFromHoldings(cat, p, t, InitialHoldings(cat, p, t, selected))

\* construct_portfolio_from_scratch(profile, target): the portfolio and the plan
construct_portfolio_from_scratch(cat, p, t) ==
    ConstructFromSelected(cat, p, t, SelectStocks(cat, p, t))

\* the largest number of holdings of a starting portfolio
MaxStartHoldings == 2

\* tickers a request may hold: catalog stocks and one the catalog does not know
PoolTickers == << <<"T","A">>, <<"T","B">>, <<"H","A">>, <<"Z","Z">> >>

\* the holdings lists of at most n holdings over pool (unique tickers, as the
\* request validators demand), each weight drawn from weights
RECURSIVE HoldingSeqs(_, _, _)
HoldingSeqs(pool, weights, n) ==
    IF n = 0 \/ pool = <<>> THEN {<<>>}
    ELSE HoldingSeqs(Tail(pool), weights, n)
         \cup { <<[ticker |-> Head(pool), weight |-> w]>> \o rest :
                    w \in weights, rest \in HoldingSeqs(Tail(pool), weights, n - 1) }

\* portfolios for compute_metrics: sums on both sides of the 1 % tolerance,
\* at it, and one unit beyond it
MetricsPortfolios ==
    { [holdings |-> hs, cash_weight |-> c] :
        hs \in HoldingSeqs(PoolTickers, {Pct(30), Pct(60)}, MaxStartHoldings),
        c \in {0, Pct(9) - 1, Pct(9), Pct(11), Pct(11) + 1, Pct(40), Pct(50)} }

\* the profile handed to compute_metrics: none, or one whose constraints vary
MetricsProfiles ==
    {NoProfile} \cup
    { Profile(50, 36, "balanced", mh, mp, ex, <<>>, <<>>) :
        mh \in {1, 3}, mp \in {25, 100},
        ex \in {<<>>, << <<"a">> >>, << <<"t","A">>, <<"z">> >>} }

\* starting portfolios for compute_rebalance_plan: at least one holding (the
\* recommend endpoint constructs from scratch otherwise), cash the rest of 1.0
PlanPortfolios ==
    { [holdings |-> hs, cash_weight |-> ONE - SumSeq(HoldingWeights(hs))] :
        hs \in { x \in HoldingSeqs(PoolTickers, {Pct(10), Pct(45)}, MaxStartHoldings) :
                    x # <<>> /\ SumSeq(HoldingWeights(x)) <= ONE } }

\* profiles for compute_rebalance_plan: one family varies the risk tier, the
\* horizon and the two caps, another the exclusions and sector preferences
PlanProfiles ==
    { Profile(r, h, "growth", mh, mp, <<>>, like, <<>>) :
        r \in {20, 40, 60, 80}, h \in {6, 36},
        mh \in {1, 3, 6}, mp \in {10, 100}, like \in {<<>>, <<"Tech">>} }
    \cup
    { Profile(r, 36, "balanced", 6, 25, ex, like, avoid) :
        r \in {20, 60},
        ex \in {<<>>, << <<"t","A">> >>, << <<"a">>, <<"H">> >>},
        like \in {<<>>, <<"Tech">>, <<"Health", "Energy">>},
        avoid \in {<<>>, <<"Energy">>} }
    \cup
    { Profile(r, h, "income", 6, 25, <<>>, <<>>, <<>>) : r \in {20, 60}, h \in {6, 36} }
    \cup
    \* few holdings to add (3 or 4) from one liked sector, the others avoided
    \* or excluded
    { Profile(60, 36, "balanced", mh, 25, ex, <<"Tech">>, <<"Energy">>) :
        mh \in {4, 5}, ex \in {<<>>, << <<"a">>, <<"H">> >>} }

-----------------------------------------------------------------------------
(* The operations as actions *)

\* main.py: target = compute_target_allocation(profile)
ComputeTargetAllocation ==
    /\ pc = "profile"
    /\ target' = compute_target_allocation(profile)
    /\ pc' = "target"
    /\ UNCHANGED <<catalog, profile, portfolio, plan, built, metrics, lookups>>

\* main.py analyze_portfolio: metrics = compute_metrics(portfolio, profile);
\* a ValueError becomes the 400 response and nothing else changes
AnalyzePortfolio ==
    /\ pc = "analyze"
    /\ metrics' = compute_metrics(catalog, portfolio, profile)
    /\ pc' = "analyzed"
    /\ UNCHANGED <<catalog, profile, portfolio, target, plan, built, lookups>>

InitMetrics ==
    /\ catalog = SmallCatalog
    /\ profile \in MetricsProfiles
    /\ portfolio \in MetricsPortfolios
    /\ target = NoTarget
    /\ plan = NoPlan
    /\ built = NoPortfolio
    /\ metrics = NoMetrics
    /\ lookups = NoLookups
    /\ pc = "analyze"

NextMetrics == AnalyzePortfolio

SpecMetrics == InitMetrics /\ [][NextMetrics]_vars

\* main.py recommend_rebalance, holdings given:
\* plan = compute_rebalance_plan(portfolio, profile, target)
ComputeRebalancePlan ==
    /\ pc = "target"
    /\ portfolio.holdings # <<>>
    /\ LET r == compute_rebalance_plan(catalog, portfolio, profile, target)
       IN  /\ plan' = r
           /\ pc' = IF r.returned THEN "planned" ELSE "hung"
    /\ UNCHANGED <<catalog, profile, portfolio, target, built, metrics, lookups>>

\* a request whose five holdings sit at, or 0.0005 above, the weights the plan
\* would give them: profile and portfolios
SettledProfile == Profile(50, 24, "growth", 6, 50, <<>>, <<"Health", "Energy">>, <<>>)

SettledHoldings(above) ==
    << [ticker |-> <<"Z","Z">>, weight |-> Pct(9) + Milli(5) + above],
       [ticker |-> <<"H","A">>, weight |-> Pct(33) + (Milli(5) \div 2) + above],
       [ticker |-> <<"E","A">>, weight |-> Pct(33) + (Milli(5) \div 2) + above],
       [ticker |-> <<"T","A">>, weight |-> Pct(9) + Milli(5) + above],
       [ticker |-> <<"T","B">>, weight |-> Pct(9) + Milli(5) + above] >>

SettledPortfolios ==
    { [holdings |-> SettledHoldings(above),
       cash_weight |-> ONE - SumSeq(HoldingWeights(SettledHoldings(above)))] :
        above \in {0, Milli(1) \div 2} }

InitPlan ==
    /\ catalog \in Catalogs
    /\ \/ profile \in PlanProfiles /\ portfolio \in PlanPortfolios
       \/ profile = SettledProfile /\ portfolio \in SettledPortfolios
    /\ target = NoTarget
    /\ plan = NoPlan
    /\ built = NoPortfolio
    /\ metrics = NoMetrics
    /\ lookups = NoLookups
    /\ pc = "profile"

\* main.py recommend_rebalance after either branch:
\* metrics = compute_metrics(portfolio, profile), on the constructed portfolio
\* when one was constructed and on the request's portfolio otherwise
RecommendMetrics ==
    /\ pc \in {"planned", "built"}
    /\ metrics' = compute_metrics(catalog, IF pc = "built" THEN built ELSE portfolio, profile)
    /\ pc' = IF pc = "built" THEN "built_measured" ELSE "plan_measured"
    /\ UNCHANGED <<catalog, profile, portfolio, target, plan, built, lookups>>

NextPlan == ComputeTargetAllocation \/ ComputeRebalancePlan \/ RecommendMetrics

SpecPlan == InitPlan /\ [][NextPlan]_vars

\* the catalog if get_stocks_for_sectors added the sector name to the cached
\* stock records themselves instead of to copies of them
TaggedCatalog(cat) ==
    [i \in DOMAIN cat |->
        [name |-> cat[i].name,
         stocks |-> [k \in DOMAIN cat[i].stocks |->
                        [ticker |-> cat[i].stocks[k].ticker,
                         market_cap |-> cat[i].stocks[k].market_cap,
                         industry_risk |-> cat[i].stocks[k].industry_risk,
                         sector |-> cat[i].name]]]]

\* ConstructPortfolio over a get_stocks_for_sectors that does not copy
ConstructPortfolio_NoCopy ==
    /\ pc = "target"
    /\ portfolio.holdings = <<>>
    /\ LET r == construct_portfolio_from_scratch(catalog, profile, target)
       IN  /\ built' = r.portfolio
           /\ plan' = r.plan
    /\ pc' = "built"
    /\ catalog' = TaggedCatalog(catalog)
    /\ UNCHANGED <<profile, portfolio, target, metrics, lookups>>

\* main.py recommend_rebalance, no holdings given:
\* portfolio, plan = construct_portfolio_from_scratch(profile, target)
ConstructPortfolio ==
    /\ pc = "target"
    /\ portfolio.holdings = <<>>
    /\ LET r == construct_portfolio_from_scratch(catalog, profile, target)
       IN  /\ built' = r.portfolio
           /\ plan' = r.plan
    /\ pc' = "built"
    /\ UNCHANGED <<catalog, profile, portfolio, target, metrics, lookups>>

\* profiles for construct_portfolio_from_scratch: one family varies the risk
\* tier, the horizon, the objective and the two caps from tight to loose, the
\* other the exclusions and the liked and avoided sectors
BuildProfiles ==
    { Profile(r, h, o, mh, mp, <<>>, like, <<>>) :
        r \in {20, 40, 60, 80}, h \in {6, 36}, o \in ObjectiveTypes,
        mh \in {1, 3, 6, 10}, mp \in {1, 10, 25, 100}, like \in {<<>>, <<"Tech">>} }
    \cup
    { Profile(r, 36, "balanced", mh, mp, ex, like, avoid) :
        r \in {20, 40, 60, 80}, mh \in {3, 10}, mp \in {10, 25},
        ex \in {<<>>, << <<"t","A">> >>, << <<"a">>, <<"H">> >>},
        like \in {<<>>, <<"Tech">>, <<"Health", "Energy">>},
        avoid \in {<<>>, <<"Energy">>} }
    \cup
    \* every stock of the catalog excluded by ticker, or every sector of the
    \* small catalog avoided
    { Profile(r, 36, "balanced", 6, 25, ex, like, avoid) :
        r \in {20, 60}, like \in {<<>>, <<"Tech">>},
        ex \in {<<>>, << <<"a">>, <<"b">> >>},
        avoid \in {<<>>, <<"Tech", "Health", "Energy">>} }

InitBuild ==
    /\ catalog \in Catalogs
    /\ profile \in BuildProfiles
    /\ portfolio = NoPortfolio
    /\ target = NoTarget
    /\ plan = NoPlan
    /\ built = NoPortfolio
    /\ metrics = NoMetrics
    /\ lookups = NoLookups
    /\ pc = "profile"

NextBuild == ComputeTargetAllocation \/ ConstructPortfolio \/ RecommendMetrics

SpecBuild == InitBuild /\ [][NextBuild]_vars

\* requests to the recommend endpoint with and without holdings
RecommendProfiles ==
    { Profile(r, 36, "balanced", mh, mp, ex, like, avoid) :
        r \in {20, 60}, mh \in {3, 6}, mp \in {10, 25},
        ex \in {<<>>, << <<"t","A">> >>},
        like \in {<<>>, <<"Tech">>}, avoid \in {<<>>, <<"Energy">>} }

RecommendPortfolios == {NoPortfolio} \cup PlanPortfolios

InitRecommend ==
    /\ catalog \in Catalogs
    /\ profile \in RecommendProfiles
    /\ portfolio \in RecommendPortfolios
    /\ target = NoTarget
    /\ plan = NoPlan
    /\ built = NoPortfolio
    /\ metrics = NoMetrics
    /\ lookups = NoLookups
    /\ pc = "profile"

NextRecommend ==
    ComputeTargetAllocation \/ ComputeRebalancePlan \/ ConstructPortfolio \/ RecommendMetrics

SpecRecommend == InitRecommend /\ [][NextRecommend]_vars

InitAlloc ==
    /\ catalog = SmallCatalog
    /\ profile \in AllocProfiles
    /\ portfolio = NoPortfolio
    /\ target = NoTarget
    /\ plan = NoPlan
    /\ built = NoPortfolio
    /\ metrics = NoMetrics
    /\ lookups = NoLookups
    /\ pc = "profile"

NextAlloc == ComputeTargetAllocation

SpecAlloc == InitAlloc /\ [][NextAlloc]_vars

-----------------------------------------------------------------------------
(* Claims about compute_target_allocation *)

SleeveSum(t) == t.cash + t.core_equity + t.thematic_sectors + t.defensive

\* C1: for every valid profile the four sleeves returned by
\* compute_target_allocation are each in [0, 1] and their sum is within 0.001
\* of 1.0.
C1_SleevesSumToOne ==
    pc = "target" =>
        /\ \A w \in {target.cash, target.core_equity, target.thematic_sectors, target.defensive} :
              0 <= w /\ w <= ONE
        /\ Abs(SleeveSum(target) - ONE) <= Milli(1)

\* a profile whose sleeves had to be scaled down (sum above 100 before
\* normalization) has been allocated
C1_Witness ==
    /\ pc = "target"
    /\ NormBranch(profile) = "proportional"
    /\ target.thematic_sectors > 0
    /\ target.defensive > 0

\* C2: for every valid profile the cash sleeve is at least 0.05, on every
\* normalization branch.
C2_CashFloor == pc = "target" => target.cash >= MIN_CASH_PCT

\* the branch that resets cash while scaling the equity sleeves has been taken
C2_Witness ==
    /\ pc = "target"
    /\ NormBranch(profile) = "cash_reset"
    /\ CashWeight(profile) > MIN_CASH_PCT
    /\ target.cash = MIN_CASH_PCT

-----------------------------------------------------------------------------
(* Claims about compute_metrics *)

\* |cash_weight + sum(holding.weight) - 1.0| of the analysed portfolio
C9_Deviation ==
    LET hs == portfolio.holdings
        total == portfolio.cash_weight + SumSeq([i \in DOMAIN hs |-> hs[i].weight])
    IN  IF total >= ONE THEN total - ONE ELSE ONE - total

\* C9: compute_metrics fails with a validation error if and only if
\* |cash_weight + sum(holding.weight) - 1.0| > 0.01; then no metrics are
\* returned and the weights are left as they were; in every other case it
\* returns metrics, whatever constraint violations the profile implies.
C9_ValidationIff ==
    pc = "analyzed" =>
        /\ (metrics.error = "ValueError") <=> (C9_Deviation > Pct(1))
        /\ (metrics.error = "ValueError") => DOMAIN metrics = {"error"}
        /\ (metrics.error # "ValueError") =>
              /\ "constraint_violations" \in DOMAIN metrics
              /\ metrics.total_holdings = TotalCount(portfolio)

\* Scenario C has been analysed: cash 0.5 and one holding of 0.6 (sum 1.1)
C9_Witness ==
    /\ pc = "analyzed"
    /\ portfolio.cash_weight = Pct(50)
    /\ Len(portfolio.holdings) = 1
    /\ portfolio.holdings[1].weight = Pct(60)
    /\ metrics.error = "ValueError"

-----------------------------------------------------------------------------
(* Claims about compute_rebalance_plan *)

\* the tickers held before or named by the plan
PlanTickers ==
    {Upper(portfolio.holdings[i].ticker) : i \in DOMAIN portfolio.holdings}
    \cup {Upper(plan.actions[i].ticker) : i \in DOMAIN plan.actions}

\* the weight of a ticker once every action of the plan is applied to the
\* starting holdings: a BUY adds delta_weight, a SELL subtracts it
PostWeight(tk) ==
    SumSeq([i \in DOMAIN portfolio.holdings |->
              IF Upper(portfolio.holdings[i].ticker) = tk
              THEN portfolio.holdings[i].weight ELSE 0])
    + SumSeq([i \in DOMAIN plan.actions |->
                IF Upper(plan.actions[i].ticker) # tk THEN 0
                ELSE IF plan.actions[i].action = "BUY" THEN plan.actions[i].delta_weight
                ELSE 0 - plan.actions[i].delta_weight])

RECURSIVE SumOver(_, _)
SumOver(F(_), S) ==
    IF S = {} THEN 0
    ELSE LET x == CHOOSE y \in S : TRUE IN F(x) + SumOver(F, S \ {x})

\* the total holding weight after the plan
PostEquity == SumOver(PostWeight, PlanTickers)

\* the total weight after the plan of the holdings of one sector
PostSectorWeight(sec) ==
    SumOver(PostWeight, {tk \in PlanTickers : get_ticker_sector(catalog, tk) = sec})

\* C3: applying all actions of a returned plan to the starting holdings gives
\* holding weights whose sum plus the final cash max(target.cash, 0.05) is
\* within 0.001 of 1.0.
C3_PlanBudget ==
    pc = "planned" =>
        Abs(PostEquity + Max(target.cash, Pct(5)) - ONE) <= Milli(1)

\* C5: after applying a returned plan no holding's weight exceeds
\* max_position_pct / 100, also when the normalization pass has rescaled the
\* BUY actions.
C5_PositionCap ==
    pc = "planned" =>
        \A tk \in PlanTickers : PostWeight(tk) <= Pct(profile.max_position_pct)

\* the sector cap of the profile's risk tier: 0.20 / 0.25 / 0.35
C7_SectorCap ==
    IF profile.risk_score < 35 THEN Pct(20)
    ELSE IF profile.risk_score < 50 THEN Pct(25)
    ELSE Pct(35)

\* C7: after applying a returned plan no sector's total weight exceeds the
\* max_sector_weight of the risk tier, also after the BUY actions are rescaled.
C7_SectorCapHolds ==
    pc = "planned" =>
        \A i \in DOMAIN catalog : PostSectorWeight(catalog[i].name) <= C7_SectorCap

\* the ticker contains the exclusion, letter case ignored
C10_Matches(ticker, exclusion) == Contains(Upper(exclusion), Upper(ticker))

\* C10: for every current holding whose ticker case-insensitively contains an
\* exclusion, the returned plan holds a SELL of that ticker for the holding's
\* full current weight, and a warning for it, whatever the weight assignment
\* computed and whatever the normalization passes rescaled.
C10_ForcedFullSell ==
    pc = "planned" =>
        \A i \in DOMAIN portfolio.holdings :
            (\E k \in DOMAIN profile.exclusions :
                C10_Matches(portfolio.holdings[i].ticker, profile.exclusions[k]))
            =>  /\ \E a \in DOMAIN plan.actions :
                      /\ plan.actions[a].action = "SELL"
                      /\ plan.actions[a].ticker = portfolio.holdings[i].ticker
                      /\ plan.actions[a].delta_weight = portfolio.holdings[i].weight
                /\ \E w \in DOMAIN plan.warnings :
                      /\ plan.warnings[w].kind = "exclusion"
                      /\ plan.warnings[w].ticker = portfolio.holdings[i].ticker

\* a plan was returned for a holding that matches an exclusion, that the weight
\* assignment wanted to BUY, and whose BUY the normalization pass rescaled
C10_Witness ==
    /\ pc = "planned"
    /\ "actions_normalized" \in Range(plan.notes)
    /\ \E i \in DOMAIN portfolio.holdings :
          /\ \E k \in DOMAIN profile.exclusions :
                C10_Matches(portfolio.holdings[i].ticker, profile.exclusions[k])
          /\ \E a \in DOMAIN plan.actions :
                /\ plan.actions[a].action = "BUY"
                /\ plan.actions[a].ticker = portfolio.holdings[i].ticker

\* C11: compute_rebalance_plan terminates and returns a plan for every valid
\* (portfolio, profile, target) and every catalog: the diversification fill loop
\* always ends, also when the preferred quota is met while preferred candidates
\* remain and other-sector candidates are lacking.  The handler never stays in
\* the call.
C11_PlanReturns == pc # "hung"

\* C22: after applying all actions of a returned plan the total holding
\* weight is at most 1 - 0.05, so at least 5 % is left as cash.
C22_PlanCashFloor ==
    pc = "planned" => PostEquity <= ONE - Pct(5)

\* the tickers of the plan's outcome that belong to a preferred sector
C23_PreferredTickers ==
    {tk \in PlanTickers : validate_ticker_in_sectors(catalog, tk, profile.sectors_like)}

\* C23: when the profile names preferred sectors and a starting or newly
\* bought holding belongs to one, the weight of the preferred-sector holdings
\* after the plan is at least min_preferred_pct of core_equity plus
\* thematic_sectors (30 / 40 / 50 / 60 % by risk tier).
C23_MinPreferred ==
    (pc = "planned" /\ profile.sectors_like # <<>> /\ C23_PreferredTickers # {})
        => SumOver(PostWeight, C23_PreferredTickers) * 100 + 100
               >= MinPreferredPct(profile) * (target.core_equity + target.thematic_sectors)

\* the holdings count after the plan, as compute_metrics counts it: the tickers
\* still held plus one slot for cash when cash is left
C24_PostCount ==
    Cardinality({tk \in PlanTickers : PostWeight(tk) > 0})
    + (IF ONE - PostEquity > 0 THEN 1 ELSE 0)

\* the tickers the plan buys that the starting portfolio does not hold
C24_NewTickers ==
    {Upper(plan.actions[i].ticker) : i \in {k \in DOMAIN plan.actions : plan.actions[k].action = "BUY"}}
    \ CurrentTickers(portfolio)

\* C24: when the starting portfolio respects max_holdings, so does the
\* outcome of the plan (tickers held plus one slot for cash), and the plan
\* adds at most new_holdings_needed new tickers.
C24_HoldingsCap ==
    (pc = "planned" /\ TotalCount(portfolio) <= profile.max_holdings)
        => /\ C24_PostCount <= profile.max_holdings
           /\ Cardinality(C24_NewTickers) <= NewHoldingsNeeded(portfolio, profile)

\* C26: a BUY action for a ticker the starting portfolio does not hold never
\* targets a ticker that contains one of the exclusions (case-insensitive),
\* whichever selection path added it.
C26_NewBuysNotExcluded ==
    pc = "planned" =>
        \A i \in DOMAIN plan.actions :
            (/\ plan.actions[i].action = "BUY"
             /\ Upper(plan.actions[i].ticker) \notin CurrentTickers(portfolio))
                => ~IsExcluded(plan.actions[i].ticker, profile.exclusions)

\* C28: after the plan every starting holding whose ticker matches an
\* exclusion has weight 0: no BUY of the weight-assignment phase offsets its
\* forced full SELL.
C28_ExcludedSoldOut ==
    pc = "planned" =>
        \A i \in DOMAIN portfolio.holdings :
            IsExcluded(portfolio.holdings[i].ticker, profile.exclusions)
                => PostWeight(Upper(portfolio.holdings[i].ticker)) = 0

\* the total delta_weight of the SELL actions of the plan for one ticker
C29_SoldWeight(tk) ==
    SumSeq([i \in DOMAIN plan.actions |->
              IF Upper(plan.actions[i].ticker) = tk /\ plan.actions[i].action = "SELL"
              THEN plan.actions[i].delta_weight ELSE 0])

\* the weight the starting portfolio holds of one ticker
C29_HeldWeight(tk) ==
    SumSeq([i \in DOMAIN portfolio.holdings |->
              IF Upper(portfolio.holdings[i].ticker) = tk
              THEN portfolio.holdings[i].weight ELSE 0])

\* the loop over the existing holdings, run on the inputs of the plan
C29_Existing ==
    ExistingDeltas(catalog, profile, portfolio.holdings,
                   HoldingTargets(catalog, portfolio, profile, target,
                                  SelectNewHoldings(catalog, portfolio, profile).new),
                   CurrentSectorWeights(catalog, portfolio), <<>>)

\* the BUY deltas that loop emitted for the holdings of one sector
C29_BoughtInSector(actions, sec) ==
    SumSeq([i \in DOMAIN actions |->
              IF actions[i].action = "BUY" /\ get_ticker_sector(catalog, actions[i].ticker) = sec
              THEN actions[i].delta_weight ELSE 0])

\* projected_sector_weights after that loop is at most the current sector
\* weight plus what was bought in the sector: no SELL has raised it
C29_SellsLowerProjection(existing) ==
    \A sec \in SectorKeys(catalog) :
        existing.projected[sec]
            <= CurrentSectorWeight(catalog, portfolio, sec)
               + C29_BoughtInSector(existing.actions, sec)

\* C29: a plan never sells more of a ticker than is held, every delta_weight
\* is >= 0, and a SELL never raises the projected weight of its sector.
C29_NoOversell ==
    pc = "planned" =>
        /\ \A tk \in PlanTickers : C29_SoldWeight(tk) <= C29_HeldWeight(tk)
        /\ \A i \in DOMAIN plan.actions : plan.actions[i].delta_weight >= 0
        /\ C29_SellsLowerProjection(C29_Existing)

\* the holdings after the plan, in the order of the starting holdings followed
\* by the tickers the plan adds; positions sold entirely are gone
C15_AppliedHoldings ==
    LET held == [i \in DOMAIN portfolio.holdings |->
                    [ticker |-> portfolio.holdings[i].ticker,
                     weight |-> PostWeight(Upper(portfolio.holdings[i].ticker)),
                     first  |-> TRUE]]
        isNew(i) ==
            /\ \A k \in DOMAIN portfolio.holdings :
                   Upper(portfolio.holdings[k].ticker) # Upper(plan.actions[i].ticker)
            /\ \A k \in 1..(i - 1) :
                   Upper(plan.actions[k].ticker) # Upper(plan.actions[i].ticker)
        bought == [i \in DOMAIN plan.actions |->
                    [ticker |-> plan.actions[i].ticker,
                     weight |-> PostWeight(Upper(plan.actions[i].ticker)),
                     first  |-> isNew(i)]]
        Stays(h) == h.first /\ h.weight > 0
        all == SelectSeq(held \o bought, Stays)
    IN  [i \in DOMAIN all |-> [ticker |-> all[i].ticker, weight |-> all[i].weight]]

\* the portfolio P' obtained by applying the plan: the cash is what the
\* holdings leave of 1.0
C15_Applied ==
    [holdings |-> C15_AppliedHoldings,
     cash_weight |-> Max(ONE - SumSeq(HoldingWeights(C15_AppliedHoldings)), 0)]

C15_NoLargeAction(again) ==
    again.returned => \A i \in DOMAIN again.actions : again.actions[i].delta_weight <= Milli(1)

\* C15: the plan computed for the portfolio that results from applying a plan
\* has no action with delta_weight above 0.001.
C15_Idempotent ==
    (pc = "planned" /\ C15_AppliedHoldings # <<>>) =>
        C15_NoLargeAction(compute_rebalance_plan(catalog, C15_Applied, profile, target))

-----------------------------------------------------------------------------
(* Claims about construct_portfolio_from_scratch *)

\* a portfolio has been constructed and returned
Constructed == pc \in {"built", "built_measured"}

\* the total weight of the returned holdings
BuiltEquity == SumSeq([i \in DOMAIN built.holdings |-> built.holdings[i].weight])

\* the actions of the returned plan that name one ticker
ActionsFor(ticker) == {a \in DOMAIN plan.actions : plan.actions[a].ticker = ticker}

\* C4: construct_portfolio_from_scratch returns a portfolio whose holding
\* weights plus cash_weight are within 0.001 of 1.0 and a plan whose actions are
\* exactly one BUY per returned holding, with delta_weight the holding's final
\* weight; compute_metrics then accepts the returned portfolio.
C4_BuiltBudget ==
    /\ Constructed =>
          /\ Abs(BuiltEquity + built.cash_weight - ONE) <= Milli(1)
          /\ Len(plan.actions) = Len(built.holdings)
          /\ \A i \in DOMAIN built.holdings :
                /\ Cardinality(ActionsFor(built.holdings[i].ticker)) = 1
                /\ \A a \in ActionsFor(built.holdings[i].ticker) :
                      /\ plan.actions[a].action = "BUY"
                      /\ plan.actions[a].delta_weight = built.holdings[i].weight
    /\ pc = "built_measured" => metrics.error = "none"

\* a portfolio with holdings was returned whose weights the normalization
\* changed and whose cash the safety block had to adjust, and it was measured
C4_Witness ==
    /\ pc = "built_measured"
    /\ built.holdings # <<>>
    /\ built.cash_weight # Max(target.cash, Pct(5))
    /\ \E w \in DOMAIN plan.warnings : plan.warnings[w].kind = "cash_adjusted"
    /\ built.holdings # InitialHoldings(catalog, profile, target,
                                        SelectStocks(catalog, profile, target))

\* C6: in every returned portfolio each holding's weight is at most
\* max_position_pct / 100.
C6_BuiltPositionCap ==
    Constructed =>
        \A i \in DOMAIN built.holdings :
            built.holdings[i].weight * 100 <= profile.max_position_pct * ONE

\* a returned portfolio in which the shortfall was redistributed and a holding
\* sits exactly at a position cap below 100 %
C6_Witness ==
    /\ Constructed
    /\ profile.max_position_pct < 100
    /\ \E i \in DOMAIN built.holdings :
          /\ built.holdings[i].weight * 100 = profile.max_position_pct * ONE
          /\ built.holdings[i].weight >
                Scale(InitialHoldings(catalog, profile, target,
                                      SelectStocks(catalog, profile, target))[i].weight,
                      ONE - target.cash,
                      SumSeq(HoldingWeights(InitialHoldings(catalog, profile, target,
                                      SelectStocks(catalog, profile, target)))))

\* the total weight of the returned holdings that the catalog lists in a sector
BuiltSectorWeight(sec) ==
    SumSeq([i \in DOMAIN built.holdings |->
              IF \E k \in DOMAIN catalog :
                    /\ catalog[k].name = sec
                    /\ \E j \in DOMAIN catalog[k].stocks :
                          catalog[k].stocks[j].ticker = built.holdings[i].ticker
              THEN built.holdings[i].weight ELSE 0])

C27_BuiltNotExcluded ==
    Constructed =>
        \A i \in DOMAIN built.holdings :
            ~IsExcluded(built.holdings[i].ticker, profile.exclusions)

\* C25: the constructed portfolio has at most max_holdings holdings, also
\* after the thematic seeding and the fewer-than-3-stocks fallback.
C25_BuiltWithinLimit ==
    Constructed => Len(built.holdings) <= profile.max_holdings

\* A stock is ruled out by the profile when its ticker contains an exclusion
\* or its sector is avoided.
C12_RuledOut(sector, stock) ==
    \/ \E i \in DOMAIN profile.exclusions : C10_Matches(stock.ticker, profile.exclusions[i])
    \/ \E i \in DOMAIN profile.sectors_avoid : profile.sectors_avoid[i] = sector.name

C12_AllRuledOut ==
    \A i \in DOMAIN catalog : \A k \in DOMAIN catalog[i].stocks :
        C12_RuledOut(catalog[i], catalog[i].stocks[k])

\* C12: when every stock of the catalog is ruled out by the profile,
\* construct_portfolio_from_scratch returns no holdings, a cash weight of 1.0,
\* no actions and at least one warning.
C12_AllCashWhenRuledOut ==
    (Constructed /\ C12_AllRuledOut) =>
        /\ built.holdings = <<>>
        /\ built.cash_weight = ONE
        /\ plan.actions = <<>>
        /\ plan.warnings # <<>>

\* The all-cash result is what a profile without liked sectors gets.
C12_AllCashReached ==
    /\ Constructed
    /\ C12_AllRuledOut
    /\ built.holdings = <<>>
    /\ built.cash_weight = ONE

\* the sectors the profile leaves open: not avoided, with a stock no exclusion
\* matches
C16_OpenSectors ==
    { catalog[i].name : i \in { k \in DOMAIN catalog :
        /\ catalog[k].name \notin Range(profile.sectors_avoid)
        /\ \E j \in DOMAIN catalog[k].stocks :
              \A e \in DOMAIN profile.exclusions :
                  ~C10_Matches(catalog[k].stocks[j].ticker, profile.exclusions[e]) } }

\* the sectors of the returned holdings
C16_BuiltSectors ==
    { get_ticker_sector(catalog, Upper(built.holdings[i].ticker)) : i \in DOMAIN built.holdings }

C16_Diversified ==
    /\ Cardinality(C16_BuiltSectors) >= 5
    /\ \A k \in DOMAIN catalog : BuiltSectorWeight(catalog[k].name) <= Pct(20)

\* C16 as stated: for a very risk-averse profile and a catalog with at least
\* five open sectors the returned holdings span at least five sectors and no
\* sector weighs more than 0.20, whatever max_holdings is.
C16_FiveSectorsAnyLimit ==
    (Constructed /\ profile.risk_score < 35 /\ Cardinality(C16_OpenSectors) >= 5) =>
        C16_Diversified

\* C16, amended: the same when max_holdings admits five holdings.
C16_FiveSectors ==
    (/\ Constructed
     /\ profile.risk_score < 35
     /\ Cardinality(C16_OpenSectors) >= 5
     /\ profile.max_holdings >= 5) =>
        C16_Diversified

\* a very risk-averse profile that avoids one of six sectors and admits five or
\* more holdings: they span the five open sectors, one of them at the cap
C16_Witness ==
    /\ Constructed
    /\ profile.risk_score < 35
    /\ profile.max_holdings >= 5
    /\ profile.sectors_avoid # <<>>
    /\ Cardinality(C16_OpenSectors) = 5
    /\ Cardinality(C16_BuiltSectors) = 5
    /\ \E k \in DOMAIN catalog : BuiltSectorWeight(catalog[k].name) = Pct(20)

-----------------------------------------------------------------------------
(* Claims relating two calls of compute_target_allocation *)

\* the profiles that differ from the current one only by a higher risk_score
C13_RiskierProfiles ==
    { [profile EXCEPT !.risk_score = r] : r \in (profile.risk_score + 1)..MaxRiskScore }

\* C13: of two profiles that differ only in risk_score, the one with the lower
\* risk_score gets a cash sleeve at least as large as the other's.
C13_CashMonotone ==
    pc = "target" =>
        \A q \in C13_RiskierProfiles : compute_target_allocation(q).cash <= target.cash

\* C14: of two profiles that differ only in risk_score, the one with the lower
\* risk_score gets a defensive sleeve at least as large as the other's.
C14_DefensiveMonotone ==
    pc = "target" =>
        \A q \in C13_RiskierProfiles :
            compute_target_allocation(q).defensive <= target.defensive

\* Scenario A: risk_score 25, 36 months, balanced, no preferred sectors
C17_IsScenarioA ==
    /\ pc = "target"
    /\ profile.risk_score = 25
    /\ profile.horizon_months = 36
    /\ profile.objective = "balanced"
    /\ profile.sectors_like = <<>>

\* C17 as stated: Scenario A yields defensive 0.15, thematic 0 and cash 0.07.
C17_ScenarioAAsStated ==
    C17_IsScenarioA =>
        /\ target.defensive = Pct(15)
        /\ target.thematic_sectors = 0
        /\ target.cash = Pct(7)

\* C17, amended: Scenario A is in the very-risk-averse tier and yields
\* defensive 0.20, thematic 0 and cash 0.10.
C17_ScenarioA ==
    C17_IsScenarioA =>
        /\ target.defensive = Pct(20)
        /\ target.thematic_sectors = 0
        /\ target.cash = Pct(10)

\* the allocation of Scenario A, with the remainder in core equity
C17_Witness == C17_IsScenarioA /\ target.core_equity = Pct(70)

\* the sum of the four sleeves before normalization
C20_PreNormTotal ==
    PreNormSleeves(profile).base + PreNormSleeves(profile).thematic
        + PreNormSleeves(profile).cash + PreNormSleeves(profile).defensive

\* C20: when the four sleeves sum to more than 100 before normalization, the
\* returned cash is max(computed cash %, 5) / 100, no lower than computed, and
\* core, thematic and defensive are scaled down to sum to 1 minus that cash.
C20_CashPinned ==
    (pc = "target" /\ C20_PreNormTotal > Pct(100)) =>
        /\ target.cash = Max(CashWeight(profile), Pct(5))
        /\ Abs(target.core_equity + target.thematic_sectors + target.defensive
                - (ONE - target.cash)) <= 3
        /\ target.core_equity <= PreNormSleeves(profile).base
        /\ target.thematic_sectors <= PreNormSleeves(profile).thematic
        /\ target.defensive <= PreNormSleeves(profile).defensive

\* C21: without preferred sectors the returned thematic sleeve is 0, except
\* for 35 <= risk_score < 50 where the sleeve is 3 % before normalization;
\* with preferred sectors it is 5 / 8 / 15 % before normalization for
\* risk_score < 35 / < 50 / >= 50.
C21_ThematicSleeve ==
    pc = "target" =>
        IF profile.sectors_like = <<>>
        THEN IF profile.risk_score >= 35 /\ profile.risk_score < 50
             THEN ThematicWeight(profile) = Pct(3)
             ELSE target.thematic_sectors = 0
        ELSE ThematicWeight(profile) =
                 (IF profile.risk_score < 35 THEN Pct(5)
                  ELSE IF profile.risk_score < 50 THEN Pct(8)
                  ELSE Pct(15))

-----------------------------------------------------------------------------
(* Claims about the constraint violations of compute_metrics *)

\* the entries of one kind in the returned list
C18_Entries(kind) ==
    { i \in DOMAIN metrics.constraint_violations :
        metrics.constraint_violations[i].kind = kind }

\* the holdings above the position limit
C18_Oversized ==
    { i \in DOMAIN portfolio.holdings :
        portfolio.holdings[i].weight > Pct(profile.max_position_pct) }

\* the (holding, exclusion) pairs where the ticker contains the exclusion
C18_Excluded ==
    { pair \in (DOMAIN portfolio.holdings) \X (DOMAIN profile.exclusions) :
        C10_Matches(portfolio.holdings[pair[1]].ticker, profile.exclusions[pair[2]]) }

C18_TooMany ==
    Len(portfolio.holdings) + (IF portfolio.cash_weight > 0 THEN 1 ELSE 0)
        > profile.max_holdings

C18_Reference ==
    LET v == metrics.constraint_violations
    IN  /\ \A i \in DOMAIN v : v[i].kind \in {"holdings", "position", "exclusion"}
        /\ Cardinality(C18_Entries("holdings")) = IF C18_TooMany THEN 1 ELSE 0
        /\ Cardinality(C18_Entries("position")) = Cardinality(C18_Oversized)
        /\ \A h \in C18_Oversized :
               \E i \in C18_Entries("position") : v[i].ticker = portfolio.holdings[h].ticker
        /\ Cardinality(C18_Entries("exclusion")) = Cardinality(C18_Excluded)
        /\ \A pair \in C18_Excluded :
               \E i \in C18_Entries("exclusion") :
                   /\ v[i].ticker = portfolio.holdings[pair[1]].ticker
                   /\ v[i].exclusion = profile.exclusions[pair[2]]

\* the same request with other sector preferences
C18_OtherPreferences ==
    { [profile EXCEPT !.sectors_like = like, !.sectors_avoid = avoid] :
        like \in {<<>>, <<"Tech">>, <<"Health", "Energy">>},
        avoid \in {<<>>, <<"Tech">>, <<"Energy">>} }

C18_NoProfileEmpty ==
    /\ pc = "analyzed"
    /\ metrics.error = "none"
    /\ profile = NoProfile
    /\ metrics.constraint_violations = <<>>

-----------------------------------------------------------------------------
(* Claims about the effects of the four functions *)

\* a step leaves the catalog and the arguments of the call as they were
C19_Frame ==
    /\ catalog' = catalog
    /\ profile' = profile
    /\ portfolio' = portfolio
    /\ (pc # "profile") => (target' = target)
    /\ (pc' \in {"plan_measured", "built_measured"}) => (built' = built /\ plan' = plan)

\* the result a step stored is the result of a second call with the arguments
\* and the catalog as they are after the step
C19_SameAgain ==
    /\ (pc' = "target") => (target' = compute_target_allocation(profile'))
    /\ (pc' \in {"planned", "hung"}) =>
           (plan' = compute_rebalance_plan(catalog', portfolio', profile', target'))
    /\ (pc' = "built") =>
           /\ built' = construct_portfolio_from_scratch(catalog', profile', target').portfolio
           /\ plan' = construct_portfolio_from_scratch(catalog', profile', target').plan
    /\ (pc' = "plan_measured") => (metrics' = compute_metrics(catalog', portfolio', profile'))
    /\ (pc' = "built_measured") => (metrics' = compute_metrics(catalog', built', profile'))

-----------------------------------------------------------------------------
(* ticker_lookup.py: lookup_or_add_ticker, started for each unknown ticker of
   a request with asyncio.gather, and by concurrent requests.  The coroutines
   run on one event loop: a coroutine runs alone from one await to the next,
   and its only await is the call of search_and_classify_ticker.  The cache of
   load_sectors_data and sectors.json hold the same data between the steps:
   add_ticker_to_database changes the cached dict and writes it to the file. *)

\* the number of lookup_or_add_ticker calls in flight
NumLookups == 2

\* the tickers asked for: two spellings of one unknown ticker, another unknown
\* ticker and one that is in the catalog
LookupTickers == { <<"Z","Z">>, <<"z","z">>, <<"Y","Y">>, <<"T","A">> }

\* ticker_exists(ticker)
ticker_exists(data, ticker) ==
    \E i \in DOMAIN data : \E k \in DOMAIN data[i].stocks :
        Upper(data[i].stocks[k].ticker) = Upper(ticker)

\* what search_and_classify_ticker can return for a ticker besides None: the
\* ticker in upper case, one of the valid sectors, a market cap and a risk
Classifications(data, ticker) ==
    { [ticker |-> Upper(ticker), sector |-> sec, market_cap |-> cap, industry_risk |-> "medium"] :
        sec \in Range(AllSectorNames(data)), cap \in {"large", "small"} }

\* the index of the first sector with that name, 0 when there is none
SectorFound(data, sector_name) ==
    IF \E i \in DOMAIN data : data[i].name = sector_name
    THEN CHOOSE i \in DOMAIN data :
            /\ data[i].name = sector_name
            /\ \A j \in DOMAIN data : data[j].name = sector_name => i <= j
    ELSE 0

\* add_ticker_to_database(classification): the return value and the data after
\* the call
add_ticker_to_database(data, classification) ==
    LET sector_found == SectorFound(data, classification.sector)
        ticker_upper == Upper(classification.ticker)
    IN  IF sector_found = 0 THEN [ok |-> FALSE, data |-> data]
        ELSE IF \E k \in DOMAIN data[sector_found].stocks :
                    Upper(data[sector_found].stocks[k].ticker) = ticker_upper
        THEN [ok |-> TRUE, data |-> data]
        ELSE [ok |-> TRUE,
              data |-> [data EXCEPT ![sector_found].stocks =
                           Append(@, Stock(ticker_upper, classification.market_cap,
                                           classification.industry_risk))]]

\* lookup_or_add_ticker up to its await: the ticker_exists check
LookupStart(c) ==
    /\ pc = "lookup"
    /\ lookups[c].at = "start"
    /\ lookups' = [lookups EXCEPT ![c] =
           IF ticker_exists(catalog, Upper(@.ticker))
           THEN [@ EXCEPT !.at = "done", !.result = "Found in database"]
           ELSE [@ EXCEPT !.at = "classifying"]]
    /\ UNCHANGED <<catalog, profile, portfolio, target, plan, built, metrics, pc>>

\* the await returns None (or raises): "No match found"
LookupNoMatch(c) ==
    /\ pc = "lookup"
    /\ lookups[c].at = "classifying"
    /\ lookups' = [lookups EXCEPT ![c] = [@ EXCEPT !.at = "done", !.result = "No match found"]]
    /\ UNCHANGED <<catalog, profile, portfolio, target, plan, built, metrics, pc>>

\* the await returns a classification and the coroutine runs on through
\* add_ticker_to_database to its return
LookupAdd(c) ==
    /\ pc = "lookup"
    /\ lookups[c].at = "classifying"
    /\ \E classification \in Classifications(catalog, lookups[c].ticker) :
          LET added == add_ticker_to_database(catalog, classification)
          IN  /\ catalog' = added.data
              /\ lookups' = [lookups EXCEPT ![c] =
                     [@ EXCEPT !.at = "done",
                               !.result = IF added.ok THEN "Added to database"
                                          ELSE "Failed to add ticker to database"]]
    /\ UNCHANGED <<profile, portfolio, target, plan, built, metrics, pc>>

InitLookup ==
    /\ catalog = SmallCatalog
    /\ profile = NoProfile
    /\ portfolio = NoPortfolio
    /\ target = NoTarget
    /\ plan = NoPlan
    /\ built = NoPortfolio
    /\ metrics = NoMetrics
    /\ lookups \in [1..NumLookups ->
                      {[ticker |-> t, at |-> "start", result |-> "none"] : t \in LookupTickers}]
    /\ pc = "lookup"

NextLookup ==
    \E c \in 1..NumLookups : LookupStart(c) \/ LookupNoMatch(c) \/ LookupAdd(c)

SpecLookup == InitLookup /\ [][NextLookup]_vars

\* how often a ticker is listed in the catalog, over all sectors
Listings(data, ticker) ==
    SumSeq([i \in DOMAIN data |->
              Cardinality({k \in DOMAIN data[i].stocks :
                              Upper(data[i].stocks[k].ticker) = Upper(ticker)})])

\* C30: under every interleaving of concurrent lookup_or_add_ticker calls each
\* ticker is listed in at most one sector of the catalog and at most once there.
C30_ListedOnce ==
    pc = "lookup" =>
        \A i \in DOMAIN catalog : \A k \in DOMAIN catalog[i].stocks :
            Listings(catalog, catalog[i].stocks[k].ticker) <= 1

=============================================================================
